---- MODULE Spec2Model ----
(***************************************************************************)
(* A model of the MatchEngine TypeScript SDK client: the request / error   *)
(* normalisation pipeline (MatchEngineClient.request and handleError), the *)
(* error classes, the public operations built on them, createConfig and    *)
(* the datetime formatter of createBooking.                                *)
(*                                                                         *)
(* JavaScript strings are sequences of one-character strings, so that      *)
(* toLowerCase, includes, String and JSON.stringify are computed and not   *)
(* assumed.  JSON values are tagged records.                               *)
(***************************************************************************)
EXTENDS Integers, Sequences, FiniteSets, TLC

(***************************************************************************)
(* Strings                                                                 *)
(***************************************************************************)
UpperChars == <<"A","B","C","D","E","F","G","H","I","J","K","L","M",
                "N","O","P","Q","R","S","T","U","V","W","X","Y","Z">>

LowerChars == <<"a","b","c","d","e","f","g","h","i","j","k","l","m",
                "n","o","p","q","r","s","t","u","v","w","x","y","z">>

DigitChars == <<"0","1","2","3","4","5","6","7","8","9">>

\* String.prototype.toLowerCase, one character
ToLowerChar(ch) ==
    IF \E i \in 1..Len(UpperChars) : UpperChars[i] = ch
    THEN LowerChars[CHOOSE i \in 1..Len(UpperChars) : UpperChars[i] = ch]
    ELSE ch

\* String.prototype.toLowerCase
ToLowerCase(s) == [i \in 1..Len(s) |-> ToLowerChar(s[i])]

\* String.prototype.includes
Includes(s, needle) ==
    \E i \in 0..(Len(s) - Len(needle)) : SubSeq(s, i + 1, i + Len(needle)) = needle

RECURSIVE Concat(_)
\* concatenation of a sequence of strings (a template literal)
Concat(ss) == IF ss = <<>> THEN <<>> ELSE Head(ss) \o Concat(Tail(ss))

RECURSIVE Join(_, _)
\* Array.prototype.join
Join(ss, sep) ==
    IF ss = <<>> THEN <<>>
    ELSE IF Len(ss) = 1 THEN ss[1]
    ELSE ss[1] \o sep \o Join(Tail(ss), sep)

RECURSIVE NumberToString(_)
\* String(n) of a non-negative integer
NumberToString(n) ==
    IF n < 10 THEN <<DigitChars[n + 1]>>
    ELSE NumberToString(n \div 10) \o <<DigitChars[(n % 10) + 1]>>

(***************************************************************************)
(* JSON values, and undefined, the JavaScript value that is not JSON       *)
(***************************************************************************)
Undefined == [t |-> "undefined"]

JNull == [t |-> "null"]

JBool(b) == [t |-> "bool", b |-> b]

JNum(n) == [t |-> "num", n |-> n]

JStr(s) == [t |-> "str", s |-> s]

\* a is a sequence of values
JArr(a) == [t |-> "arr", a |-> a]

\* o is a sequence of members [k |-> string, v |-> value], in insertion order
JObj(o) == [t |-> "obj", o |-> o]

Member(k, v) == [k |-> k, v |-> v]

\* typeof v
TypeOf(v) ==
    CASE v.t = "undefined" -> "undefined"
      [] v.t = "str" -> "string"
      [] v.t = "num" -> "number"
      [] v.t = "bool" -> "boolean"
      [] OTHER -> "object"

\* Array.isArray(v)
IsArray(v) == v.t = "arr"

\* v[key] for a key that is no array index and no built-in property: the
\* member of an object (the last one wins when a key is repeated), undefined
\* on arrays, strings, numbers and booleans.  Not defined on null: the
\* callers test for it and raise the TypeError the engine raises.
GetProp(v, key) ==
    IF v.t = "obj" /\ \E i \in 1..Len(v.o) : v.o[i].k = key
    THEN v.o[CHOOSE i \in 1..Len(v.o) :
                 /\ v.o[i].k = key
                 /\ \A j \in (i + 1)..Len(v.o) : v.o[j].k # key].v
    ELSE Undefined

\* the quoted form of a string in JSON.stringify
Quote(s) ==
    <<"\"">> \o
    Concat([i \in 1..Len(s) |->
              IF s[i] = "\"" THEN <<"\\", "\"">>
              ELSE IF s[i] = "\\" THEN <<"\\", "\\">>
              ELSE <<s[i]>>]) \o
    <<"\"">>

RECURSIVE JSONStringify(_)
\* JSON.stringify(v) of a parsed JSON value
JSONStringify(v) ==
    CASE v.t = "null" -> <<"n","u","l","l">>
      [] v.t = "bool" -> IF v.b THEN <<"t","r","u","e">> ELSE <<"f","a","l","s","e">>
      [] v.t = "num" -> NumberToString(v.n)
      [] v.t = "str" -> Quote(v.s)
      [] v.t = "arr" ->
           <<"[">> \o Join([i \in 1..Len(v.a) |-> JSONStringify(v.a[i])], <<",">>) \o <<"]">>
      [] v.t = "obj" ->
           <<"{">> \o
           Join([i \in 1..Len(v.o) |->
                   Quote(v.o[i].k) \o <<":">> \o JSONStringify(v.o[i].v)], <<",">>) \o
           <<"}">>

RECURSIVE StringOf(_)
\* String(v)
StringOf(v) ==
    CASE v.t = "undefined" -> <<"u","n","d","e","f","i","n","e","d">>
      [] v.t = "null" -> <<"n","u","l","l">>
      [] v.t = "bool" -> IF v.b THEN <<"t","r","u","e">> ELSE <<"f","a","l","s","e">>
      [] v.t = "num" -> NumberToString(v.n)
      [] v.t = "str" -> v.s
      [] v.t = "arr" ->
           Join([i \in 1..Len(v.a) |->
                   IF v.a[i].t \in {"null", "undefined"} THEN <<>> ELSE StringOf(v.a[i])],
                <<",">>)
      [] v.t = "obj" -> <<"[","o","b","j","e","c","t"," ","O","b","j","e","c","t","]">>

(***************************************************************************)
(* Completion records: what a piece of code ends with                      *)
(***************************************************************************)
Return(v) == [k |-> "return", v |-> v]

Throw(e) == [k |-> "throw", e |-> e]

(***************************************************************************)
(* src/errors/index.ts                                                     *)
(***************************************************************************)
\* a built-in Error (TypeError, SyntaxError, RangeError, AbortError): it has
\* a name and a message, and no statusCode or responseData property
NativeError(name, message) ==
    [name |-> name, message |-> message,
     statusCode |-> Undefined, responseData |-> Undefined]

MatchEngineError(message, statusCode, responseData) ==
    [name |-> "MatchEngineError", message |-> message,
     statusCode |-> statusCode, responseData |-> responseData]

AuthenticationError(message) ==
    [MatchEngineError(message, JNum(401), Undefined) EXCEPT !.name = "AuthenticationError"]

NotFoundError(message) ==
    [MatchEngineError(message, JNum(404), Undefined) EXCEPT !.name = "NotFoundError"]

ValidationError(message, responseData) ==
    [MatchEngineError(message, JNum(400), responseData) EXCEPT !.name = "ValidationError"]

SlotNotAvailableError(message) ==
    [MatchEngineError(message, JNum(400), Undefined) EXCEPT !.name = "SlotNotAvailableError"]

UserNotFoundError(message) ==
    [MatchEngineError(message, JNum(404), Undefined) EXCEPT !.name = "UserNotFoundError"]

\* the classes declared with "extends MatchEngineError"
MatchEngineErrorClasses ==
    {"MatchEngineError", "AuthenticationError", "NotFoundError", "ValidationError",
     "SlotNotAvailableError", "UserNotFoundError", "BookingError", "PaymentError"}

\* e instanceof cls: every subclass extends MatchEngineError directly
InstanceOf(e, cls) ==
    \/ cls = "Error"
    \/ cls = e.name
    \/ cls = "MatchEngineError" /\ e.name \in MatchEngineErrorClasses

(***************************************************************************)
(* MatchEngineClient.handleError                                           *)
(***************************************************************************)
\* the message of the TypeError a property read on null raises (V8's text)
NullReadMessage ==
    <<"C","a","n","n","o","t"," ","r","e","a","d"," ","p","r","o","p","e","r","t","i","e","s",
      " ","o","f"," ","n","u","l","l"," ","(","r","e","a","d","i","n","g"," ","'","e","r","r",
      "o","r","'",")">>

\* handleError with "detail" read before "error"
DeriveMessageDetailFirst(data) ==
    IF TypeOf(GetProp(data, <<"d","e","t","a","i","l">>)) = "string"
    THEN GetProp(data, <<"d","e","t","a","i","l">>).s
    ELSE IF TypeOf(GetProp(data, <<"e","r","r","o","r">>)) = "string"
    THEN GetProp(data, <<"e","r","r","o","r">>).s
    ELSE IF /\ IsArray(GetProp(data, <<"n","o","n","_","f","i","e","l","d","_","e","r","r","o","r","s">>))
            /\ Len(GetProp(data, <<"n","o","n","_","f","i","e","l","d","_","e","r","r","o","r","s">>).a) > 0
    THEN StringOf(GetProp(data, <<"n","o","n","_","f","i","e","l","d","_","e","r","r","o","r","s">>).a[1])
    ELSE IF TypeOf(data) = "object"
    THEN JSONStringify(data)
    ELSE <<"U","n","k","n","o","w","n"," ","e","r","r","o","r">>

\* the first half of handleError: the message derived from the body
DeriveMessage(data) ==
    IF TypeOf(GetProp(data, <<"e","r","r","o","r">>)) = "string"
    THEN GetProp(data, <<"e","r","r","o","r">>).s
    ELSE IF TypeOf(GetProp(data, <<"d","e","t","a","i","l">>)) = "string"
    THEN GetProp(data, <<"d","e","t","a","i","l">>).s
    ELSE IF /\ IsArray(GetProp(data, <<"n","o","n","_","f","i","e","l","d","_","e","r","r","o","r","s">>))
            /\ Len(GetProp(data, <<"n","o","n","_","f","i","e","l","d","_","e","r","r","o","r","s">>).a) > 0
    THEN StringOf(GetProp(data, <<"n","o","n","_","f","i","e","l","d","_","e","r","r","o","r","s">>).a[1])
    ELSE IF TypeOf(data) = "object"
    THEN JSONStringify(data)
    ELSE <<"U","n","k","n","o","w","n"," ","e","r","r","o","r">>

\* a switch whose case 404 looks for a missing user in the message
ErrorForStatusUserOn404(statusCode, message, data) ==
    CASE statusCode = 401 -> AuthenticationError(message)
      [] statusCode = 404 ->
           IF /\ Includes(ToLowerCase(message), <<"u","s","e","r">>)
              /\ Includes(ToLowerCase(message), <<"n","o","t"," ","f","o","u","n","d">>)
           THEN UserNotFoundError(message)
           ELSE NotFoundError(message)
      [] statusCode = 400 ->
           IF Includes(ToLowerCase(message), <<"n","o","t"," ","a","v","a","i","l","a","b","l","e">>)
           THEN SlotNotAvailableError(message)
           ELSE IF /\ Includes(ToLowerCase(message), <<"u","s","e","r">>)
                   /\ Includes(ToLowerCase(message), <<"n","o","t"," ","f","o","u","n","d">>)
           THEN UserNotFoundError(message)
           ELSE ValidationError(message, data)
      [] OTHER -> MatchEngineError(message, JNum(statusCode), data)

\* the second half of handleError: the switch on the status code
ErrorForStatus(statusCode, message, data) ==
    CASE statusCode = 401 -> AuthenticationError(message)
      [] statusCode = 404 -> NotFoundError(message)
      [] statusCode = 400 ->
           IF Includes(ToLowerCase(message), <<"n","o","t"," ","a","v","a","i","l","a","b","l","e">>)
           THEN SlotNotAvailableError(message)
           ELSE IF /\ Includes(ToLowerCase(message), <<"u","s","e","r">>)
                   /\ Includes(ToLowerCase(message), <<"n","o","t"," ","f","o","u","n","d">>)
           THEN UserNotFoundError(message)
           ELSE ValidationError(message, data)
      [] OTHER -> MatchEngineError(message, JNum(statusCode), data)

\* handleError(statusCode, data): returns the error to throw, or throws the
\* TypeError of reading data.error when data is null
HandleError(statusCode, data) ==
    IF data.t = "null"
    THEN Throw(NativeError("TypeError", NullReadMessage))
    ELSE Return(ErrorForStatus(statusCode, DeriveMessage(data), data))

(***************************************************************************)
(* src/config.ts and the constructor of MatchEngineClient                  *)
(***************************************************************************)
\* the default of timeoutMs, 3e4
DefaultTimeoutMs == 30000

\* String.prototype.endsWith("/")
EndsWithSlash(s) == Len(s) > 0 /\ s[Len(s)] = "/"

\* createConfig(config); config.timeoutMs is a number or undefined
CreateConfig(c) ==
    [baseUrl |-> IF EndsWithSlash(c.baseUrl)
                 THEN SubSeq(c.baseUrl, 1, Len(c.baseUrl) - 1)
                 ELSE c.baseUrl,
     apiToken |-> c.apiToken,
     stripePublishableKey |-> c.stripePublishableKey,
     timeoutMs |-> IF c.timeoutMs.t \in {"undefined", "null"}
                   THEN JNum(DefaultTimeoutMs)
                   ELSE c.timeoutMs]

\* this.baseApiUrl of the constructor
BaseApiUrl(cfg) == cfg.baseUrl \o <<"/","a","p","i","/","v","1">>

(***************************************************************************)
(* new URL(input): the WHATWG parser rejects an input with no scheme (no   *)
(* base is given).  Every input here is baseApiUrl followed by a path that *)
(* starts with "/api/v1/", so a special scheme always finds a host.        *)
(***************************************************************************)
IsAlpha(ch) ==
    \E i \in 1..Len(UpperChars) : ch = UpperChars[i] \/ ch = LowerChars[i]

IsSchemeChar(ch) ==
    \/ IsAlpha(ch)
    \/ \E i \in 1..Len(DigitChars) : ch = DigitChars[i]
    \/ ch \in {"+", "-", "."}

HasScheme(s) ==
    \E i \in 2..Len(s) :
        /\ s[i] = ":"
        /\ IsAlpha(s[1])
        /\ \A j \in 2..(i - 1) : IsSchemeChar(s[j])

\* new URL(input) of request: the URL, or the TypeError the parser throws
NewURL(input) ==
    IF HasScheme(input)
    THEN Return(input)
    ELSE Throw(NativeError("TypeError", <<"I","n","v","a","l","i","d"," ","U","R","L">>))

(***************************************************************************)
(* Dates and time zones.  A Date is an instant: the UTC day (days from     *)
(* 1970-01-01), the second of that day and the millisecond.  Calendar      *)
(* fields are computed from it, in the proleptic Gregorian calendar, as    *)
(* the engine, Intl and luxon compute them.                                *)
(***************************************************************************)
\* the day number of a civil date
DaysFromCivil(y, m, d) ==
    LET yy == IF m <= 2 THEN y - 1 ELSE y
        era == yy \div 400
        yoe == yy - era * 400
        mp == (m + 9) % 12
        doy == (153 * mp + 2) \div 5 + d - 1
        doe == yoe * 365 + yoe \div 4 - yoe \div 100 + doy
    IN era * 146097 + doe - 719468

\* the civil date of a day number
CivilFromDays(z) ==
    LET zz == z + 719468
        era == zz \div 146097
        doe == zz - era * 146097
        yoe == (doe - doe \div 1460 + doe \div 36524 - doe \div 146096) \div 365
        doy == doe - (365 * yoe + yoe \div 4 - yoe \div 100)
        mp == (5 * doy + 2) \div 153
        m == IF mp < 10 THEN mp + 3 ELSE mp - 9
    IN [year |-> yoe + era * 400 + (IF m <= 2 THEN 1 ELSE 0),
        month |-> m,
        day |-> doy - (153 * mp + 2) \div 5 + 1]

\* an instant from a day and a count of seconds that may leave the day
Instant(day, sec, ms) ==
    [day |-> day + sec \div 86400, sec |-> sec % 86400, ms |-> ms]

\* a is an earlier instant than b, or the same (to the second)
NotAfter(a, b) == a.day < b.day \/ (a.day = b.day /\ a.sec <= b.sec)

\* the time zone database, for the zones used here: the standard and the
\* daylight offset in minutes east of UTC, and the instants between which
\* daylight time is observed in 2025 (a zone without it has dst = std)
ZoneRule(zone) ==
    CASE zone = <<"u","t","c">> ->
           [std |-> 0, dst |-> 0, from |-> Instant(0, 0, 0), to |-> Instant(0, 0, 0)]
      [] zone = <<"a","s","i","a","/","k","o","l","k","a","t","a">> ->
           [std |-> 330, dst |-> 330, from |-> Instant(0, 0, 0), to |-> Instant(0, 0, 0)]
      [] zone = <<"e","u","r","o","p","e","/","b","e","r","l","i","n">> ->
           [std |-> 60, dst |-> 120,
            from |-> Instant(DaysFromCivil(2025, 3, 30), 3600, 0),
            to |-> Instant(DaysFromCivil(2025, 10, 26), 3600, 0)]
      [] zone = <<"e","u","r","o","p","e","/","l","o","n","d","o","n">> ->
           [std |-> 0, dst |-> 60,
            from |-> Instant(DaysFromCivil(2025, 3, 30), 3600, 0),
            to |-> Instant(DaysFromCivil(2025, 10, 26), 3600, 0)]
      [] zone = <<"a","m","e","r","i","c","a","/","n","e","w","_","y","o","r","k">> ->
           [std |-> -300, dst |-> -240,
            from |-> Instant(DaysFromCivil(2025, 3, 9), 7 * 3600, 0),
            to |-> Instant(DaysFromCivil(2025, 11, 2), 6 * 3600, 0)]

\* the zone names the platform knows; they are matched without case
IsValidZone(zone) ==
    ToLowerCase(zone) \in {<<"u","t","c">>, <<"a","s","i","a","/","k","o","l","k","a","t","a">>, <<"e","u","r","o","p","e","/","b","e","r","l","i","n">>,
                           <<"e","u","r","o","p","e","/","l","o","n","d","o","n">>, <<"a","m","e","r","i","c","a","/","n","e","w","_","y","o","r","k">>}

\* the offset of a zone at an instant, in minutes east of UTC
UtcOffset(zone, date) ==
    LET r == ZoneRule(ToLowerCase(zone))
    IN IF r.dst # r.std /\ NotAfter(r.from, date) /\ ~NotAfter(r.to, date)
       THEN r.dst ELSE r.std

\* the calendar and clock fields of an instant at an offset
WallClock(date, offset) ==
    LET t == Instant(date.day, date.sec + offset * 60, date.ms)
        civ == CivilFromDays(t.day)
    IN [year |-> civ.year, month |-> civ.month, day |-> civ.day,
        hour |-> t.sec \div 3600, minute |-> (t.sec % 3600) \div 60,
        second |-> t.sec % 60, ms |-> t.ms]

\* new Date('YYYY-MM-DDTHH:mm:ss.sss'): a date-time string with no offset is
\* read as local time of the system's zone
NewDate(wall, system) ==
    LET r == ZoneRule(ToLowerCase(system))
        at(offset) == Instant(DaysFromCivil(wall.year, wall.month, wall.day),
                              wall.hour * 3600 + wall.minute * 60 + wall.second - offset * 60,
                              wall.ms)
    IN IF UtcOffset(system, at(r.std)) = r.std THEN at(r.std) ELSE at(r.dst)

\* String.prototype.padStart(n, "0")
PadStart(s, n) ==
    IF Len(s) >= n THEN s ELSE [i \in 1..(n - Len(s)) |-> "0"] \o s

\* the offset as luxon writes it in ISO 8601: sign, hours, ":", minutes
IsoOffset(offset) ==
    LET a == IF offset < 0 THEN -offset ELSE offset
    IN <<IF offset < 0 THEN "-" ELSE "+">> \o PadStart(NumberToString(a \div 60), 2)
       \o <<":">> \o PadStart(NumberToString(a % 60), 2)

\* luxon's normalizeZone gives its fixed UTC zone for "utc" and "gmt" in any
\* case; every other name is an IANA zone, which is never a fixed offset
IsOffsetFixed(zone) == ToLowerCase(zone) \in {<<"u","t","c">>, <<"g","m","t">>}

\* toISO({ suppressMilliseconds: true }) of a DateTime with the local fields
\* w in a zone at the given offset, fixed or not
ToISO(w, offset, fixed) ==
    JStr(PadStart(NumberToString(w.year), 4) \o <<"-">>
         \o PadStart(NumberToString(w.month), 2) \o <<"-">>
         \o PadStart(NumberToString(w.day), 2) \o <<"T">>
         \o PadStart(NumberToString(w.hour), 2) \o <<":">>
         \o PadStart(NumberToString(w.minute), 2) \o <<":">>
         \o PadStart(NumberToString(w.second), 2)
         \o (IF w.ms = 0 THEN <<>> ELSE <<".">> \o PadStart(NumberToString(w.ms), 3))
         \o (IF fixed /\ offset = 0 THEN <<"Z">> ELSE IsoOffset(offset)))

\* DateTime.fromJSDate(date, { zone }).toISO({ suppressMilliseconds: true }):
\* null for an invalid DateTime (unknown zone); the milliseconds are left out
\* only when they are 0; a fixed zone at offset 0 is written "Z"
LuxonToISO(date, timezone) ==
    IF ~IsValidZone(timezone) THEN JNull
    ELSE ToISO(WallClock(date, UtcOffset(timezone, date)), UtcOffset(timezone, date),
               IsOffsetFixed(timezone))

\* the hour part of Intl.DateTimeFormat with hour: "2-digit", hour12: false.
\* For a locale whose default cycle is h12 (en-CA), ECMA-402 editions up to
\* 2022 resolve hour12: false to the cycle h24, which writes midnight as 24;
\* later editions resolve it to h23.  Both kinds of engine are in use.
IntlHour(hour, hourCycle) ==
    IF hourCycle = "h24" /\ hour = 0 THEN <<"2","4">>
    ELSE PadStart(NumberToString(hour), 2)

\* the timeZoneName part with timeZoneName: "shortOffset": GMT, GMT+1,
\* GMT-5, GMT+5:30
ShortOffset(offset) ==
    LET a == IF offset < 0 THEN -offset ELSE offset
    IN <<"G","M","T">> \o
       (IF offset = 0 THEN <<>>
        ELSE <<IF offset < 0 THEN "-" ELSE "+">> \o NumberToString(a \div 60)
             \o (IF a % 60 = 0 THEN <<>> ELSE <<":">> \o PadStart(NumberToString(a % 60), 2)))

IsDigit(ch) == \E i \in 1..Len(DigitChars) : ch = DigitChars[i]

\* the longest run of digits of s from index i on (\d+)
Digits(s, i) ==
    LET n == CHOOSE k \in 0..(Len(s) - i + 1) :
                 /\ \A j \in i..(i + k - 1) : IsDigit(s[j])
                 /\ i + k <= Len(s) => ~IsDigit(s[i + k])
    IN SubSeq(s, i, i + n - 1)

\* offsetStr.match(/GMT([+-]?)(\d+)?(?::(\d+))?/): the three groups, the
\* empty string for a group that took nothing, or no match
OffsetMatch(s) ==
    IF ~Includes(s, <<"G","M","T">>) THEN [matched |-> FALSE]
    ELSE LET g == CHOOSE i \in 1..Len(s) :
                      /\ SubSeq(s, i, i + 2) = <<"G","M","T">>
                      /\ \A j \in 1..(i - 1) : SubSeq(s, j, j + 2) # <<"G","M","T">>
             p1 == g + 3
             sign == IF p1 <= Len(s) /\ s[p1] \in {"+", "-"} THEN <<s[p1]>> ELSE <<>>
             p2 == p1 + Len(sign)
             hours == Digits(s, p2)
             p3 == p2 + Len(hours)
             minutes == IF p3 <= Len(s) /\ s[p3] = ":" THEN Digits(s, p3 + 1) ELSE <<>>
         IN [matched |-> TRUE, sign |-> sign, hours |-> hours, minutes |-> minutes]

\* a || b on strings
OrElse(a, b) == IF a = <<>> THEN b ELSE a

\* the RangeError of Intl.DateTimeFormat for a zone it does not know
InvalidTimeZone(timezone) ==
    NativeError("RangeError",
        <<"I","n","v","a","l","i","d"," ","t","i","m","e"," ","z","o","n","e"," ","s","p","e","c","i","f","i","e","d",":"," ">> \o timezone)

\* the string fallbackFormatDateTime builds from the parts that
\* formatToParts gave (the local fields w) and the match of the offset
FormattedParts(w, offsetMatch, hourCycle) ==
    JStr(NumberToString(w.year) \o <<"-">> \o PadStart(NumberToString(w.month), 2)
         \o <<"-">> \o PadStart(NumberToString(w.day), 2) \o <<"T">>
         \o IntlHour(w.hour, hourCycle) \o <<":">> \o PadStart(NumberToString(w.minute), 2)
         \o <<":">> \o PadStart(NumberToString(w.second), 2)
         \o (IF offsetMatch.matched
             THEN OrElse(offsetMatch.sign, <<"+">>)
                  \o PadStart(OrElse(offsetMatch.hours, <<"0">>), 2) \o <<":">>
                  \o PadStart(OrElse(offsetMatch.minutes, <<"0">>), 2)
             ELSE <<"+","0","0",":","0","0">>))

\* fallbackFormatDateTime(date, timezone) on an engine with the given hour
\* cycle for hour12: false
fallbackFormatDateTime(date, timezone, hourCycle) ==
    IF ~IsValidZone(timezone) THEN Throw(InvalidTimeZone(timezone))
    ELSE Return(FormattedParts(WallClock(date, UtcOffset(timezone, date)),
                               OffsetMatch(ShortOffset(UtcOffset(timezone, date))),
                               hourCycle))

\* try { ... } catch { return inCatch }: what the try block returned, or
\* what the catch block gives when it threw
TryCatch(inTry, inCatch) == IF inTry.k = "return" THEN inTry ELSE inCatch

\* return value ?? after
ReturnIfNotNull(value, after) == IF value # JNull THEN Return(value) ELSE after

\* formatDateTimeWithTimezone(date, timezone) in an environment: luxon can
\* be required or not, and the engine has its hour cycle.  A null from toISO
\* goes to the fallback inside the try; whatever is thrown in the try, by
\* require or by the fallback, is caught, and the catch runs the fallback.
formatDateTimeWithTimezone(date, timezone, env) ==
    TryCatch(IF ~env.luxon
             THEN Throw(NativeError("Error", <<"C","a","n","n","o","t"," ","f","i","n","d"," ","m","o","d","u","l","e"," ","'","l","u","x","o","n","'">>))
             ELSE ReturnIfNotNull(LuxonToISO(date, timezone),
                                  fallbackFormatDateTime(date, timezone, env.hourCycle)),
             fallbackFormatDateTime(date, timezone, env.hourCycle))

\* the string formatDate builds from the local fields: getMonth counts
\* from 0
YearMonthDay(year, getMonth, day) ==
    NumberToString(year) \o <<"-">> \o PadStart(NumberToString(getMonth + 1), 2) \o <<"-">>
    \o PadStart(NumberToString(day), 2)

\* the local fields getFullYear, getMonth and getDate of formatDate
LocalDate(local) == YearMonthDay(local.year, local.month - 1, local.day)

\* formatDate(date): getFullYear, getMonth and getDate read the instant in
\* the zone of the system
formatDate(date, system) == LocalDate(WallClock(date, UtcOffset(system, date)))

(***************************************************************************)
(* Request descriptors (RequestOptions) of the public operations           *)
(***************************************************************************)
RequestOptions(method, path, queryParams, headers, data) ==
    [method |-> method, path |-> path, queryParams |-> queryParams,
     headers |-> headers, data |-> data]

ExternalIdKey == <<"e","x","t","e","r","n","a","l","_","i","d">>

\* a ?? b
Coalesce(a, b) == IF a.t \in {"undefined", "null"} THEN b ELSE a

\* the test of "if (v)" and of "v ? a : b"
Truthy(v) ==
    CASE v.t \in {"undefined", "null"} -> FALSE
      [] v.t = "bool" -> v.b
      [] v.t = "num" -> v.n # 0
      [] v.t = "str" -> v.s # <<>>
      [] OTHER -> TRUE

UserExternalIdHeader == <<"X","-","U","s","e","r","-","E","x","t","e","r","n","a","l","-","I","D">>

registerUser(o) ==
    RequestOptions("POST",
        <<"/","c","l","i","e","n","t","/","u","s","e","r","s","/","r","e","g","i","s","t","e","r","/">>,
        Undefined, Undefined,
        JObj(<<Member(ExternalIdKey, JStr(o.externalId)),
               Member(<<"e","m","a","i","l">>, JStr(o.email)),
               Member(<<"f","i","r","s","t","_","n","a","m","e">>, Coalesce(o.firstName, JStr(<<>>))),
               Member(<<"l","a","s","t","_","n","a","m","e">>, Coalesce(o.lastName, JStr(<<>>)))>>))

lookupUser(o) ==
    RequestOptions("GET",
        <<"/","c","l","i","e","n","t","/","u","s","e","r","s","/","l","o","o","k","u","p","/">>,
        JObj(<<Member(ExternalIdKey, JStr(o.externalId))>>), Undefined, Undefined)

lookupResource(o) ==
    RequestOptions("GET",
        <<"/","c","l","i","e","n","t","/","r","e","s","o","u","r","c","e","s","/","l","o","o","k","u","p","/">>,
        JObj(<<Member(ExternalIdKey, JStr(o.externalId))>>), Undefined, Undefined)

lookupVenue(o) ==
    RequestOptions("GET",
        <<"/","c","l","i","e","n","t","/","v","e","n","u","e","s","/","l","o","o","k","u","p","/">>,
        JObj(<<Member(ExternalIdKey, JStr(o.externalId))>>), Undefined, Undefined)

\* getVenue(venueId): venueId is whatever value the caller passes, rendered
\* by the template literal
getVenue(venueId) ==
    RequestOptions("GET",
        <<"/","v","e","n","u","e","s","/">> \o StringOf(venueId) \o <<"/">>,
        Undefined, Undefined, Undefined)

\* the first request of getVenueBySlug
getVenueBySlugList(slug) ==
    RequestOptions("GET", <<"/","v","e","n","u","e","s","/">>,
        JObj(<<Member(<<"s","e","a","r","c","h">>, JStr(slug))>>), Undefined, Undefined)

\* the options carry the Dates and, as system, the zone their local fields
\* are read in
getAvailabilityById(o) ==
    RequestOptions("GET",
        <<"/","r","e","s","o","u","r","c","e","s","/">> \o StringOf(o.resourceId) \o <<"/","a","v","a","i","l","a","b","i","l","i","t","y","/">>,
        JObj(<<Member(<<"s","t","a","r","t","_","d","a","t","e">>, JStr(formatDate(o.startDate, o.system))),
               Member(<<"e","n","d","_","d","a","t","e">>, JStr(formatDate(o.endDate, o.system)))>>),
        Undefined, Undefined)

getAvailability(o) ==
    RequestOptions("GET", <<"/","r","e","s","o","u","r","c","e","s","/","a","v","a","i","l","a","b","i","l","i","t","y","/">>,
        JObj(<<Member(<<"r","e","s","o","u","r","c","e","_","e","x","t","e","r","n","a","l","_","i","d">>, JStr(o.resourceExternalId)),
               Member(<<"s","t","a","r","t","_","d","a","t","e">>, JStr(formatDate(o.startDate, o.system))),
               Member(<<"e","n","d","_","d","a","t","e">>, JStr(formatDate(o.endDate, o.system)))>>),
        Undefined, Undefined)

\* the request of listBookings: status and upcoming are set when truthy (an
\* absent status is the empty string here)
listBookings(o) ==
    RequestOptions("GET", <<"/","b","o","o","k","i","n","g","s","/">>,
        JObj((IF o.status # <<>> THEN <<Member(<<"s","t","a","t","u","s">>, JStr(o.status))>>
              ELSE <<>>) \o
             (IF o.upcomingOnly
              THEN <<Member(<<"u","p","c","o","m","i","n","g">>, JStr(<<"t","r","u","e">>))>>
              ELSE <<>>)),
        Undefined, Undefined)

\* queryParams.key = value when the test holds
QueryParam(test, key, value) == IF test THEN <<Member(key, value)>> ELSE <<>>

listResources(o) ==
    RequestOptions("GET", <<"/","r","e","s","o","u","r","c","e","s","/">>,
        JObj(QueryParam(Truthy(o.venueId), <<"v","e","n","u","e">>, JStr(StringOf(o.venueId))) \o
             QueryParam(Truthy(o.venueSlug), <<"v","e","n","u","e","_","s","l","u","g">>, o.venueSlug) \o
             QueryParam(o.isActive # Undefined, <<"i","s","_","a","c","t","i","v","e">>, JStr(StringOf(o.isActive))) \o
             QueryParam(o.isBookable # Undefined, <<"i","s","_","b","o","o","k","a","b","l","e">>, JStr(StringOf(o.isBookable)))),
        Undefined, Undefined)

listVenues(o) ==
    RequestOptions("GET", <<"/","v","e","n","u","e","s","/">>,
        JObj(QueryParam(Truthy(o.city), <<"c","i","t","y">>, o.city) \o
             QueryParam(Truthy(o.venueType), <<"v","e","n","u","e","_","t","y","p","e">>, o.venueType) \o
             QueryParam(Truthy(o.search), <<"s","e","a","r","c","h">>, o.search) \o
             QueryParam(o.isActive # Undefined, <<"i","s","_","a","c","t","i","v","e">>, JStr(StringOf(o.isActive))) \o
             QueryParam(o.isFeatured # Undefined, <<"i","s","_","f","e","a","t","u","r","e","d">>, JStr(StringOf(o.isFeatured))) \o
             QueryParam(Truthy(o.page), <<"p","a","g","e">>, JStr(StringOf(o.page))) \o
             QueryParam(Truthy(o.pageSize), <<"p","a","g","e","_","s","i","z","e">>, JStr(StringOf(o.pageSize)))),
        Undefined, Undefined)

registerResource(o) ==
    RequestOptions("POST", <<"/","c","l","i","e","n","t","/","r","e","s","o","u","r","c","e","s","/","r","e","g","i","s","t","e","r","/">>, Undefined, Undefined,
        JObj(<<Member(ExternalIdKey, o.externalId),
               Member(<<"r","e","s","o","u","r","c","e","_","i","d">>, o.matchengineResourceId),
               Member(<<"e","x","t","e","r","n","a","l","_","d","a","t","a">>, Coalesce(o.externalData, JObj(<<>>)))>>))

registerVenue(o) ==
    RequestOptions("POST", <<"/","c","l","i","e","n","t","/","v","e","n","u","e","s","/","r","e","g","i","s","t","e","r","/">>, Undefined, Undefined,
        JObj(<<Member(ExternalIdKey, o.externalId),
               Member(<<"v","e","n","u","e","_","i","d">>, o.matchengineVenueId),
               Member(<<"e","x","t","e","r","n","a","l","_","d","a","t","a">>, Coalesce(o.externalData, JObj(<<>>)))>>))

getVenueWithResources(venueExternalId) ==
    RequestOptions("GET", <<"/","v","e","n","u","e","s","/","r","e","s","o","u","r","c","e","s","/">>,
        JObj(<<Member(<<"v","e","n","u","e","_","e","x","t","e","r","n","a","l","_","i","d">>, venueExternalId)>>), Undefined, Undefined)

\* createBooking once both datetimes are formatted
createBookingRequest(o, start, end) ==
    RequestOptions("POST", <<"/","b","o","o","k","i","n","g","s","/">>, Undefined,
        JObj(<<Member(UserExternalIdHeader, o.userExternalId)>>),
        JObj(<<Member(<<"r","e","s","o","u","r","c","e","_","e","x","t","e","r","n","a","l","_","i","d">>, o.resourceExternalId),
               Member(<<"s","t","a","r","t","_","d","a","t","e","t","i","m","e">>, start),
               Member(<<"e","n","d","_","d","a","t","e","t","i","m","e">>, end),
               Member(<<"p","a","r","t","i","c","i","p","a","n","t","_","c","o","u","n","t">>, Coalesce(o.participantCount, JNum(1))),
               Member(<<"n","o","t","e","s">>, Coalesce(o.notes, JStr(<<>>)))>>))

\* the operation once its arguments are evaluated: an exception of the
\* formatter leaves it before any request is made
createBookingStep(o, start, end) ==
    IF start.k = "throw" THEN start
    ELSE IF end.k = "throw" THEN end
    ELSE [k |-> "request", d |-> createBookingRequest(o, start.v, end.v)]

\* createBooking(options)
createBooking(o) ==
    createBookingStep(o,
        formatDateTimeWithTimezone(o.startDatetime, o.timezone, o.env),
        formatDateTimeWithTimezone(o.endDatetime, o.timezone, o.env))

getBooking(bookingId, userExternalId) ==
    RequestOptions("GET", <<"/","b","o","o","k","i","n","g","s","/">> \o StringOf(bookingId) \o <<"/">>, Undefined,
        IF Truthy(userExternalId)
        THEN JObj(<<Member(UserExternalIdHeader, userExternalId)>>)
        ELSE Undefined,
        Undefined)

createPaymentIntent(o) ==
    RequestOptions("POST",
        <<"/","b","o","o","k","i","n","g","s","/">> \o StringOf(o.bookingId) \o <<"/","c","r","e","a","t","e","-","p","a","y","m","e","n","t","-","i","n","t","e","n","t","/">>, Undefined,
        JObj(<<Member(UserExternalIdHeader, o.userExternalId)>>), Undefined)

cancelBooking(o) ==
    RequestOptions("POST", <<"/","b","o","o","k","i","n","g","s","/">> \o StringOf(o.bookingId) \o <<"/","c","a","n","c","e","l","/">>, Undefined,
        JObj(<<Member(UserExternalIdHeader, o.userExternalId)>>),
        JObj(<<Member(<<"r","e","a","s","o","n">>, Coalesce(o.reason, JStr(<<"u","s","e","r","_","r","e","q","u","e","s","t">>))),
               Member(<<"n","o","t","e","s">>, Coalesce(o.notes, JStr(<<>>)))>>))

(***************************************************************************)
(* MatchEngineClient.request: the pieces between its awaits                *)
(***************************************************************************)
\* a spread in which a key that is already there keeps its value
RECURSIVE SpreadKeepingBase(_, _)
SpreadKeepingBase(base, extra) ==
    IF extra = <<>> THEN base
    ELSE SpreadKeepingBase(IF \E i \in 1..Len(base) : base[i].k = Head(extra).k
                           THEN base ELSE Append(base, Head(extra)),
                           Tail(extra))

\* { Authorization, Content-Type, Accept, ...options.headers }: a key of
\* the spread keeps its place and takes the new value, a new key is added
RECURSIVE Spread(_, _)
Spread(base, extra) ==
    IF extra = <<>> THEN base
    ELSE LET m == Head(extra)
             at == {i \in 1..Len(base) : base[i].k = m.k}
         IN Spread(IF at = {} THEN Append(base, m)
                   ELSE [i \in 1..Len(base) |-> IF i \in at THEN m ELSE base[i]],
                   Tail(extra))

RequestHeaders(cfg, options) ==
    Spread(<<Member(<<"A","u","t","h","o","r","i","z","a","t","i","o","n">>,
                    JStr(<<"T","o","k","e","n"," ">> \o cfg.apiToken)),
             Member(<<"C","o","n","t","e","n","t","-","T","y","p","e">>,
                    JStr(<<"a","p","p","l","i","c","a","t","i","o","n","/","j","s","o","n">>)),
             Member(<<"A","c","c","e","p","t">>,
                    JStr(<<"a","p","p","l","i","c","a","t","i","o","n","/","j","s","o","n">>))>>,
           IF options.headers = Undefined THEN <<>> ELSE options.headers.o)

\* what fetch is called with: the URL given to the parser, the appended
\* search parameters, the method, the headers and the serialised body
FetchCall(apiUrl, cfg, options) ==
    [url |-> apiUrl \o options.path,
     searchParams |-> IF options.queryParams = Undefined THEN <<>>
                      ELSE options.queryParams.o,
     method |-> options.method,
     headers |-> RequestHeaders(cfg, options),
     body |-> IF options.data = Undefined THEN Undefined
              ELSE JStr(JSONStringify(options.data))]

\* response.ok that holds for every status
ResponseOkAlways(st) == TRUE

\* response.ok as a test for 200 alone
ResponseOkOnly200(st) == st = 200

\* response.ok
ResponseOk(st) == 200 <= st /\ st <= 299

\* the body as it comes off the wire
WireJson(v) == [w |-> "json", v |-> v]

WireEmpty == [w |-> "empty"]

WireGarbage == [w |-> "garbage"]

WireBroken == [w |-> "broken"]

\* response.json(): the parsed value, or the SyntaxError of JSON.parse, or
\* the TypeError of a body stream that fails (the texts are V8's and undici's)
ResponseJson(wire) ==
    CASE wire.w = "json" -> Return(wire.v)
      [] wire.w = "empty" ->
           Throw(NativeError("SyntaxError",
                 <<"U","n","e","x","p","e","c","t","e","d"," ","e","n","d"," ","o","f"," ",
                   "J","S","O","N"," ","i","n","p","u","t">>))
      [] wire.w = "garbage" ->
           Throw(NativeError("SyntaxError",
                 <<"U","n","e","x","p","e","c","t","e","d"," ","t","o","k","e","n"," ","<"," ",
                   "i","n"," ","J","S","O","N"," ","a","t"," ","p","o","s","i","t","i","o","n",
                   " ","0">>))
      [] OTHER -> Throw(NativeError("TypeError", <<"t","e","r","m","i","n","a","t","e","d">>))

\* response.json().catch(() => ({}))
ErrorBody(wire) ==
    IF ResponseJson(wire).k = "return" THEN ResponseJson(wire).v ELSE JObj(<<>>)

\* a thrown value that is not an Error
NonErrorValue == [name |-> "(not an Error)", message |-> <<>>,
                  statusCode |-> Undefined, responseData |-> Undefined]

IsError(e) == e # NonErrorValue

\* a catch block that lets every error but the abort through as it is
CatchBlockRethrow(error) ==
    IF IsError(error) /\ error.name = "AbortError"
    THEN Throw(MatchEngineError(<<"R","e","q","u","e","s","t"," ","t","i","m","e","o","u","t">>, JNum(408), Undefined))
    ELSE Throw(error)

\* the catch block of request, after clearTimeout
CatchBlock(error) ==
    IF IsError(error) /\ InstanceOf(error, "MatchEngineError")
    THEN Throw(error)
    ELSE IF IsError(error)
    THEN IF error.name = "AbortError"
         THEN Throw(MatchEngineError(<<"R","e","q","u","e","s","t"," ","t","i","m","e","o","u","t">>,
                                     JNum(408), Undefined))
         ELSE Throw(MatchEngineError(error.message, Undefined, Undefined))
    ELSE Throw(MatchEngineError(<<"U","n","k","n","o","w","n"," ","e","r","r","o","r">>,
                                Undefined, Undefined))

\* the non-2xx branch: throw this.handleError(response.status, data), into
\* the catch block (a TypeError raised by handleError lands there too)
OnErrorBody(st, wire) ==
    LET h == HandleError(st, ErrorBody(wire))
    IN IF h.k = "return" THEN CatchBlock(h.v) ELSE CatchBlock(h.e)

\* the 2xx branch: return await response.json(), inside the try
OnBody(wire) ==
    IF ResponseJson(wire).k = "return"
    THEN ResponseJson(wire)
    ELSE CatchBlock(ResponseJson(wire).e)

\* the rejection of fetch when the controller aborts
AbortError == NativeError("AbortError",
    <<"T","h","i","s"," ","o","p","e","r","a","t","i","o","n"," ","w","a","s"," ",
      "a","b","o","r","t","e","d">>)

(***************************************************************************)
(* The public operations: what each does before its first request (Begin)  *)
(* and when an awaited request completes (Settle).  A step is a completion *)
(* (Return, Throw) or a request to issue.                                  *)
(***************************************************************************)
None == [k |-> "none"]

Request(d) == [k |-> "request", d |-> d]

SlugKey == <<"s","l","u","g">>

ResultsKey == <<"r","e","s","u","l","t","s">>

\* the TypeError of reading property prop on null or undefined (V8's text)
ReadOfNullish(v, prop) ==
    NativeError("TypeError",
        <<"C","a","n","n","o","t"," ","r","e","a","d"," ","p","r","o","p","e","r","t","i","e","s",
          " ","o","f"," ">> \o StringOf(v) \o <<" ","(","r","e","a","d","i","n","g"," ","'">> \o
        prop \o <<"'",")">>)

\* results.find() with a callback that accepts every element
FindFirst(a, i, slug) ==
    IF i > Len(a) THEN Return(Undefined) ELSE Return(a[i])

RECURSIVE FindBySlug(_, _, _)
\* results.find((v) => v.slug === slug), from index i on
FindBySlug(a, i, slug) ==
    IF i > Len(a) THEN Return(Undefined)
    ELSE IF a[i].t = "null" THEN Throw(ReadOfNullish(a[i], SlugKey))
    ELSE IF GetProp(a[i], SlugKey) = JStr(slug) THEN Return(a[i])
    ELSE FindBySlug(a, i + 1, slug)

\* getVenueBySlug after its list request returned response
getVenueBySlugFind(response, slug) ==
    IF response.t = "null" THEN Throw(ReadOfNullish(response, ResultsKey))
    ELSE LET results == GetProp(response, ResultsKey)
         IN IF results.t \in {"undefined", "null"}
            THEN Throw(ReadOfNullish(results, <<"f","i","n","d">>))
            ELSE IF ~IsArray(results)
            THEN Throw(NativeError("TypeError",
                       <<"r","e","s","p","o","n","s","e",".","r","e","s","u","l","t","s",".",
                         "f","i","n","d"," ","i","s"," ","n","o","t"," ","a"," ",
                         "f","u","n","c","t","i","o","n">>))
            ELSE LET found == FindBySlug(results.a, 1, slug)
                 IN IF found.k = "throw" THEN found
                    ELSE IF found.v = Undefined
                    THEN Throw(NotFoundError(
                             <<"V","e","n","u","e"," ","w","i","t","h"," ","s","l","u","g"," ","'">>
                             \o slug \o <<"'"," ","n","o","t"," ","f","o","u","n","d">>))
                    ELSE Request(getVenue(GetProp(found.v, <<"i","d">>)))

\* listBookings reading the results field of whatever it received
listBookingsResultsOnly(response) ==
    IF response.t = "null" THEN Throw(ReadOfNullish(response, ResultsKey))
    ELSE Return(Coalesce(GetProp(response, ResultsKey), JArr(<<>>)))

\* listBookings after its request returned response
listBookingsResult(response) ==
    IF IsArray(response) THEN Return(response)
    ELSE IF response.t = "null" THEN Throw(ReadOfNullish(response, ResultsKey))
    ELSE Return(Coalesce(GetProp(response, ResultsKey), JArr(<<>>)))

\* the catch of the lookups testing the status code instead of the class
lookupCatchByStatus(error) ==
    IF error.statusCode = JNum(404) THEN Return(JNull) ELSE Throw(error)

\* the catch of lookupUser, lookupResource and lookupVenue
lookupCatch(error) ==
    IF InstanceOf(error, "NotFoundError") THEN Return(JNull) ELSE Throw(error)

LookupNames == {"lookupUser", "lookupResource", "lookupVenue"}

\* the operation up to its first await
Begin(oc) ==
    CASE oc.name = "registerUser" -> Request(registerUser(oc))
      [] oc.name = "lookupUser" -> Request(lookupUser(oc))
      [] oc.name = "lookupResource" -> Request(lookupResource(oc))
      [] oc.name = "lookupVenue" -> Request(lookupVenue(oc))
      [] oc.name = "getVenue" -> Request(getVenue(oc.venueId))
      [] oc.name = "getVenueBySlug" -> Request(getVenueBySlugList(oc.slug))
      [] oc.name = "listBookings" -> Request(listBookings(oc))
      [] oc.name = "getAvailabilityById" -> Request(getAvailabilityById(oc))
      [] oc.name = "getAvailability" -> Request(getAvailability(oc))
      [] oc.name = "listResources" -> Request(listResources(oc))
      [] oc.name = "registerResource" -> Request(registerResource(oc))
      [] oc.name = "registerVenue" -> Request(registerVenue(oc))
      [] oc.name = "getVenueWithResources" -> Request(getVenueWithResources(oc.venueExternalId))
      [] oc.name = "listVenues" -> Request(listVenues(oc))
      [] oc.name = "createBooking" -> createBooking(oc)
      [] oc.name = "getBooking" -> Request(getBooking(oc.bookingId, oc.userExternalId))
      [] oc.name = "createPaymentIntent" -> Request(createPaymentIntent(oc))
      [] oc.name = "cancelBooking" -> Request(cancelBooking(oc))
      [] oc.name = "request" -> Request(oc.options)

\* an operation that calls request once more when its first request failed
SettleRetryOnce(oc, n, rc) ==
    IF rc.k = "throw" /\ n = 1 THEN Begin(oc) ELSE rc

\* the operation from the completion rc of its n-th request on
Settle(oc, n, rc) ==
    CASE oc.name \in LookupNames ->
           IF rc.k = "throw" THEN lookupCatch(rc.e) ELSE rc
      [] oc.name = "getVenueBySlug" /\ n = 1 ->
           IF rc.k = "throw" THEN rc ELSE getVenueBySlugFind(rc.v, oc.slug)
      [] oc.name = "listBookings" ->
           IF rc.k = "throw" THEN rc ELSE listBookingsResult(rc.v)
      [] OTHER -> rc

RECURSIVE Run(_, _, _, _, _)
\* follows the operation from a step to its next await or to its end: a
\* request whose URL does not parse rejects at once, with the parser's
\* TypeError (new URL is called before the try block of request).
\* n counts the calls of request so far, rr is the completion of the last
\* one that completed.
Run(oc, n, step, rr, apiUrl) ==
    IF step.k # "request"
    THEN [k |-> "done", result |-> step, n |-> n, rr |-> rr]
    ELSE IF NewURL(apiUrl \o step.d.path).k = "throw"
    THEN Run(oc, n + 1, Settle(oc, n + 1, NewURL(apiUrl \o step.d.path)),
             NewURL(apiUrl \o step.d.path), apiUrl)
    ELSE [k |-> "await", d |-> step.d, n |-> n + 1, rr |-> rr]

\* a clearTimeout that leaves the timer as it is
ClearTimeoutNothing(t) == t

\* clearTimeout(timeoutId)
ClearTimeout(t) == IF t = "armed" THEN "cleared" ELSE t

\* one timer kept by the client and used by every call
timeoutIdShared(c) == 1

\* const controller, const timeoutId: the controller and the timer of a
\* request are locals of its invocation, so every call has its own
timeoutId(c) == c

(***************************************************************************)
(* src/models/booking.ts                                                   *)
(***************************************************************************)
BookingStatus == {<<"p","e","n","d","i","n","g">>, <<"c","o","n","f","i","r","m","e","d">>, <<"p","a","i","d">>, <<"c","a","n","c","e","l","l","e","d">>, <<"r","e","f","u","n","d","e","d">>, <<"n","o","_","s","h","o","w">>}

StatusKey == <<"s","t","a","t","u","s">>

isPaid(booking) == GetProp(booking, StatusKey) = JStr(<<"p","a","i","d">>)

isPending(booking) == GetProp(booking, StatusKey) = JStr(<<"p","e","n","d","i","n","g">>)

\* a test that takes a booking for cancelled only when its status says so
isCancelledOnly(booking) == GetProp(booking, StatusKey) = JStr(<<"c","a","n","c","e","l","l","e","d">>)

isCancelled(booking) ==
    \/ GetProp(booking, StatusKey) = JStr(<<"c","a","n","c","e","l","l","e","d">>)
    \/ GetProp(booking, StatusKey) = JStr(<<"r","e","f","u","n","d","e","d">>)

(***************************************************************************)
(* The environment: what callers pass and what the server may answer       *)
(***************************************************************************)
MaxCalls == 2

Calls == 1..MaxCalls

\* the calls of the specification of one caller at a time
SoloCalls == {1}

ConfigInputs ==
    {[baseUrl |-> b, apiToken |-> <<"t","o","k">>,
      stripePublishableKey |-> <<"p","k","_","1">>, timeoutMs |-> Undefined] :
        b \in {<<"h","t","t","p",":","/","/","h","/">>, <<"h">>}}

Wall(date, time, ms) ==
    [year |-> date[1], month |-> date[2], day |-> date[3],
     hour |-> time[1], minute |-> time[2], second |-> time[3], ms |-> ms]

\* the local date-times callers write: new Date('2025-01-15T10:00:00')
WallClocks ==
    {Wall(d, t, ms) : d \in {<<2025, 1, 15>>, <<2025, 7, 15>>, <<999, 6, 1>>},
                      t \in {<<10, 0, 0>>, <<0, 30, 0>>},
                      ms \in {0, 250}}

\* the timezone argument: zones of the database, and a name it does not hold
TimeZones ==
    {<<"E","u","r","o","p","e","/","B","e","r","l","i","n">>, <<"A","s","i","a","/","K","o","l","k","a","t","a">>, <<"U","T","C">>, <<"A","m","e","r","i","c","a","/","N","e","w","_","Y","o","r","k">>,
     <<"E","u","r","o","p","e","/","L","o","n","d","o","n">>, <<"M","a","r","s","/","P","h","o","b","o","s">>}

\* the zone of the system the caller runs on
SystemZones == {<<"U","T","C">>, <<"E","u","r","o","p","e","/","B","e","r","l","i","n">>, <<"A","m","e","r","i","c","a","/","N","e","w","_","Y","o","r","k">>}

\* luxon installed or not, and the engine's hour cycle for hour12: false
Environments == [luxon : BOOLEAN, hourCycle : {"h23", "h24"}]

\* the Date of the availability and booking calls: a local date-time of a
\* system in the zone Europe/Berlin
BerlinDate(date, time) == NewDate(Wall(date, time, 0), <<"E","u","r","o","p","e","/","B","e","r","l","i","n">>)

OpCalls ==
    {[name |-> "registerUser", externalId |-> <<"u","1">>, email |-> <<"u","1","@","x",".","i","o">>,
      firstName |-> Undefined, lastName |-> JStr(<<"L">>)]}
    \cup {[name |-> n, externalId |-> <<"u","1">>] : n \in LookupNames}
    \cup {[name |-> "getVenue", venueId |-> JNum(1)]}
    \cup {[name |-> "getVenueBySlug", slug |-> s] : s \in {<<"a">>, <<"b">>}}
    \cup {[name |-> "listBookings", status |-> <<>>, upcomingOnly |-> u] : u \in BOOLEAN}
    \cup {[name |-> "getAvailabilityById", resourceId |-> JNum(3), system |-> <<"E","u","r","o","p","e","/","B","e","r","l","i","n">>,
           startDate |-> BerlinDate(<<2025, 1, 15>>, <<0, 30, 0>>),
           endDate |-> BerlinDate(<<2025, 7, 15>>, <<10, 0, 0>>)]}
    \cup {[name |-> "getAvailability", resourceExternalId |-> <<"r","1">>, system |-> <<"U","T","C">>,
           startDate |-> NewDate(Wall(<<999, 6, 1>>, <<10, 0, 0>>, 0), <<"U","T","C">>),
           endDate |-> NewDate(Wall(<<2025, 1, 15>>, <<10, 0, 0>>, 0), <<"U","T","C">>)]}
    \cup {[name |-> "registerResource", externalId |-> JStr(<<"r","1">>),
           matchengineResourceId |-> JNum(3), externalData |-> Undefined]}
    \cup {[name |-> "registerVenue", externalId |-> JStr(<<"v","1">>),
           matchengineVenueId |-> JNum(1), externalData |-> JObj(<<>>)]}
    \cup {[name |-> "getVenueWithResources", venueExternalId |-> JStr(<<"v","1">>)]}
    \cup {[name |-> "listResources", venueId |-> JNum(1), venueSlug |-> Undefined,
           isActive |-> JBool(FALSE), isBookable |-> Undefined]}
    \cup {[name |-> "listVenues", city |-> JStr(<<"U","l","m">>), venueType |-> Undefined,
           search |-> JStr(<<>>), isActive |-> Undefined, isFeatured |-> JBool(TRUE),
           page |-> JNum(0), pageSize |-> JNum(20)]}
    \cup {[name |-> "createBooking", userExternalId |-> JStr(<<"u","1">>),
           resourceExternalId |-> JStr(<<"r","1">>), timezone |-> z,
           startDatetime |-> BerlinDate(<<2025, 1, 15>>, <<10, 0, 0>>),
           endDatetime |-> BerlinDate(<<2025, 1, 15>>, <<11, 0, 0>>),
           env |-> [luxon |-> TRUE, hourCycle |-> "h23"],
           participantCount |-> Undefined, notes |-> JStr(<<"h","i">>)] :
               z \in {<<"E","u","r","o","p","e","/","B","e","r","l","i","n">>, <<"M","a","r","s","/","P","h","o","b","o","s">>}}
    \cup {[name |-> "getBooking", bookingId |-> JNum(5), userExternalId |-> u] :
               u \in {JStr(<<"u","1">>), JStr(<<>>), Undefined}}
    \cup {[name |-> "createPaymentIntent", bookingId |-> JNum(5), userExternalId |-> JStr(<<"u","1">>)]}
    \cup {[name |-> "cancelBooking", bookingId |-> JNum(5), userExternalId |-> JStr(<<"u","1">>),
           reason |-> Undefined, notes |-> Undefined]}
    \cup {[name |-> "request",
           options |-> RequestOptions("GET", <<"/","b","o","o","k","i","n","g","s","/">>, Undefined,
                           JObj(<<Member(<<"A","c","c","e","p","t">>, JStr(<<"t","e","x","t","/","p","l","a","i","n">>)),
                                  Member(<<"X","-","T","r","a","c","e">>, JStr(<<"1">>))>>),
                           Undefined)]}

Statuses == {200, 204, 400, 401, 403, 404, 408, 500}

ErrorKey == <<"e","r","r","o","r">>

DetailKey == <<"d","e","t","a","i","l">>

NonFieldErrorsKey == <<"n","o","n","_","f","i","e","l","d","_","e","r","r","o","r","s">>

SlotMessage ==
    <<"S","l","o","t"," ","i","s"," ","n","o","t"," ","a","v","a","i","l","a","b","l","e"," ",
      "f","o","r"," ","b","o","o","k","i","n","g">>

UserMessage ==
    <<"U","s","e","r"," ","n","o","t"," ","f","o","u","n","d"," ","f","o","r"," ",
      "e","x","t","e","r","n","a","l"," ","i","d">>

BothMessage ==
    <<"U","S","E","R"," ","N","O","T"," ","F","O","U","N","D",";"," ",
      "s","l","o","t"," ","N","o","t"," ","A","v","a","i","l","a","b","l","e">>

Venue(id, slug) == JObj(<<Member(<<"i","d">>, JNum(id)), Member(SlugKey, JStr(slug))>>)

\* the JSON values the server may send as a body
JsonBodies ==
    {JNull, JBool(TRUE), JNum(7), JStr(<<"o","o","p","s">>),
     JArr(<<>>), JArr(<<Venue(7, <<"z">>)>>),
     JObj(<<>>),
     JObj(<<Member(ErrorKey, JStr(<<"E">>)), Member(DetailKey, JStr(<<"D">>))>>),
     JObj(<<Member(DetailKey, JStr(<<"D">>))>>),
     JObj(<<Member(ErrorKey, JNum(5)), Member(DetailKey, JStr(<<"D">>))>>),
     JObj(<<Member(NonFieldErrorsKey, JArr(<<JStr(<<"X">>), JStr(<<"Y">>)>>))>>),
     JObj(<<Member(NonFieldErrorsKey, JArr(<<JNum(5)>>))>>),
     JObj(<<Member(NonFieldErrorsKey, JArr(<<>>))>>),
     JObj(<<Member(DetailKey, JNull), Member(NonFieldErrorsKey, JArr(<<JStr(SlotMessage)>>))>>),
     JObj(<<Member(<<"f","o","o">>, JStr(<<"b","a","r">>))>>),
     JObj(<<Member(ErrorKey, JStr(SlotMessage))>>),
     JObj(<<Member(DetailKey, JStr(UserMessage))>>),
     JObj(<<Member(ErrorKey, JStr(BothMessage))>>),
     JObj(<<Member(ErrorKey, JStr(<<"R","e","q","u","e","s","t"," ","t","i","m","e","o","u","t">>))>>),
     JObj(<<Member(<<"u","s","e","r">>, JStr(<<"n","o","t"," ","f","o","u","n","d">>))>>),
     JObj(<<Member(<<"c","o","u","n","t">>, JNum(0))>>),
     JObj(<<Member(ResultsKey, JNull)>>),
     JObj(<<Member(ResultsKey, JArr(<<Venue(2, <<"a","b">>), Venue(1, <<"a">>)>>))>>),
     JObj(<<Member(ResultsKey, JArr(<<JNull, Venue(1, <<"a">>)>>))>>),
     Venue(1, <<"a">>)}

\* what may come off the wire as a body
WireBodies == {WireJson(v) : v \in JsonBodies} \cup {WireEmpty, WireGarbage, WireBroken}

\* what fetch may reject with, other than the abort
FetchFaults ==
    {NativeError("TypeError", <<"f","e","t","c","h"," ","f","a","i","l","e","d">>), NonErrorValue}

(***************************************************************************)
(* State                                                                   *)
(***************************************************************************)
VARIABLES
    config,      \* this.config of the client
    baseApiUrl,  \* this.baseApiUrl of the client
    pc,          \* where each call of a public operation stands
    call,        \* the operation and arguments of each call
    nreq,        \* how many times the call has invoked request
    sent,        \* the fetch calls the call has issued, in order
    timer,       \* the timeout timer of the call's current request
    elapsed,     \* timeoutMs have passed since the current request started
    status,      \* response.status of the current request, once received
    body,        \* the body of the current response, once received
    fault,       \* what the fetch of the current request rejected with
    reqResult,   \* how the last request() of the call that completed ended
    result,      \* how the public operation completed
    fnCall,      \* the pure function under evaluation and its arguments
    fnOut        \* what it evaluated to

vars == <<config, baseApiUrl, pc, call, nreq, sent, timer, elapsed, status, body, fault,
          reqResult, result, fnCall, fnOut>>

Pending == {"fetching", "readingErrorBody", "readingBody"}

\* no call has been made on the client yet
NoCalls ==
    /\ pc = [c \in Calls |-> "idle"]
    /\ call = [c \in Calls |-> None]
    /\ nreq = [c \in Calls |-> 0]
    /\ sent = [c \in Calls |-> <<>>]
    /\ timer = [c \in Calls |-> "none"]
    /\ elapsed = [c \in Calls |-> FALSE]
    /\ status = [c \in Calls |-> Undefined]
    /\ body = [c \in Calls |-> None]
    /\ fault = [c \in Calls |-> None]
    /\ reqResult = [c \in Calls |-> None]
    /\ result = [c \in Calls |-> None]

Init ==
    /\ config \in {CreateConfig(i) : i \in ConfigInputs}
    /\ baseApiUrl = BaseApiUrl(config)
    /\ NoCalls
    /\ fnCall = None
    /\ fnOut = None

\* the call goes on as r says (a value of Run): it awaits the fetch of a new
\* request, with a new controller and a new timer, or it ends.  tm, el and
\* bd are what the request just completed leaves in timer, elapsed and body.
Apply(c, r, tm, el, bd) ==
    /\ nreq' = [nreq EXCEPT ![c] = r.n]
    /\ reqResult' = [reqResult EXCEPT ![c] = r.rr]
    /\ IF r.k = "await"
       THEN /\ pc' = [pc EXCEPT ![c] = "fetching"]
            /\ sent' = [sent EXCEPT ![c] = Append(@, FetchCall(baseApiUrl, config, r.d))]
            /\ timer' = [timer EXCEPT ![timeoutId(c)] = "armed"]
            /\ elapsed' = [elapsed EXCEPT ![c] = FALSE]
            /\ status' = [status EXCEPT ![c] = Undefined]
            /\ body' = [body EXCEPT ![c] = None]
            /\ UNCHANGED result
       ELSE /\ pc' = [pc EXCEPT ![c] = "done"]
            /\ result' = [result EXCEPT ![c] = r.result]
            /\ timer' = [timer EXCEPT ![timeoutId(c)] = tm]
            /\ elapsed' = [elapsed EXCEPT ![c] = el]
            /\ body' = [body EXCEPT ![c] = bd]
            /\ UNCHANGED <<sent, status>>

\* the request of the call completed with rc: the operation goes on
Completed(c, rc, tm, el, bd) ==
    Apply(c, Run(call[c], nreq[c], Settle(call[c], nreq[c], rc), rc, baseApiUrl), tm, el, bd)

\* an operation that keeps a trace of the call in the configuration
InvokeKeepingToken(c, oc) ==
    /\ pc[c] = "idle"
    /\ call' = [call EXCEPT ![c] = oc]
    /\ Apply(c, Run(oc, 0, Begin(oc), None, baseApiUrl),
             timer[timeoutId(c)], elapsed[c], body[c])
    /\ config' = [config EXCEPT !.apiToken = <<>>]
    /\ UNCHANGED <<baseApiUrl, fault, fnCall, fnOut>>

\* the caller invokes a public operation
Invoke(c, oc) ==
    /\ pc[c] = "idle"
    /\ call' = [call EXCEPT ![c] = oc]
    /\ Apply(c, Run(oc, 0, Begin(oc), None, baseApiUrl),
             timer[timeoutId(c)], elapsed[c], body[c])
    /\ UNCHANGED <<config, baseApiUrl, fault, fnCall, fnOut>>

\* timeoutMs pass on a request that has not completed.  If its timer is
\* still set, the callback runs controller.abort(): the pending fetch rejects
\* with the AbortError, into the catch block.  A cleared timer does nothing.
TimeoutElapse(c) ==
    /\ pc[c] \in Pending
    /\ ~elapsed[c]
    /\ IF timer[timeoutId(c)] = "armed"
       THEN /\ Completed(c, CatchBlock(AbortError), ClearTimeout("fired"), TRUE, body[c])
            /\ fault' = [fault EXCEPT ![c] = AbortError]
       ELSE /\ elapsed' = [elapsed EXCEPT ![c] = TRUE]
            /\ UNCHANGED <<pc, nreq, sent, timer, status, body, fault, reqResult, result>>
    /\ UNCHANGED <<config, baseApiUrl, call, fnCall, fnOut>>

\* a request that leaves its timer set while the body is read
FetchResolveKeepingTimer(c, st) ==
    /\ pc[c] = "fetching"
    /\ status' = [status EXCEPT ![c] = JNum(st)]
    /\ pc' = [pc EXCEPT ![c] = IF ResponseOk(st) THEN "readingBody" ELSE "readingErrorBody"]
    /\ UNCHANGED <<config, baseApiUrl, call, nreq, sent, timer, elapsed, body, fault,
                   reqResult, result, fnCall, fnOut>>

\* fetch resolves: the status line and headers have arrived.  The timer is
\* cleared, and the body is read next.
FetchResolve(c, st) ==
    /\ pc[c] = "fetching"
    /\ status' = [status EXCEPT ![c] = JNum(st)]
    /\ timer' = [timer EXCEPT ![timeoutId(c)] = ClearTimeout(@)]
    /\ pc' = [pc EXCEPT ![c] = IF ResponseOk(st) THEN "readingBody" ELSE "readingErrorBody"]
    /\ UNCHANGED <<config, baseApiUrl, call, nreq, sent, elapsed, body, fault, reqResult,
                   result, fnCall, fnOut>>

\* fetch rejects with a transport fault
FetchReject(c, rejection) ==
    /\ pc[c] = "fetching"
    /\ Completed(c, CatchBlock(rejection), ClearTimeout(timer[timeoutId(c)]), elapsed[c],
                 body[c])
    /\ fault' = [fault EXCEPT ![c] = rejection]
    /\ UNCHANGED <<config, baseApiUrl, call, fnCall, fnOut>>

\* response.json() settles: the body has arrived, or its stream has failed
BodyArrive(c, wire) ==
    /\ pc[c] \in {"readingErrorBody", "readingBody"}
    /\ Completed(c,
                 IF pc[c] = "readingErrorBody" THEN OnErrorBody(status[c].n, wire)
                 ELSE OnBody(wire),
                 ClearTimeout(timer[timeoutId(c)]), elapsed[c], wire)
    /\ UNCHANGED <<config, baseApiUrl, call, fault, fnCall, fnOut>>

Next ==
    \E c \in SoloCalls :
        \/ \E oc \in OpCalls : Invoke(c, oc)
        \/ TimeoutElapse(c)
        \/ \E st \in Statuses : FetchResolve(c, st)
        \/ \E f \in FetchFaults : FetchReject(c, f)
        \/ \E w \in WireBodies : BodyArrive(c, w)

Spec == Init /\ [][Next]_vars

(***************************************************************************)
(* Several callers on one client: the calls interleave at their awaits.    *)
(* The operations and answers are a part of those above, so that every     *)
(* interleaving of MaxCalls calls is explored.                             *)
(***************************************************************************)
ConcOpCalls ==
    {[name |-> "lookupUser", externalId |-> <<"u","1">>],
     [name |-> "getVenueBySlug", slug |-> <<"a">>]}

ConcStatuses == {200, 404}

ConcWireBodies ==
    {WireJson(JObj(<<Member(ResultsKey, JArr(<<Venue(2, <<"a","b">>), Venue(1, <<"a">>)>>))>>)),
     WireEmpty}

ConcFetchFaults == {NativeError("TypeError", <<"f","e","t","c","h"," ","f","a","i","l","e","d">>)}

ConcNext ==
    \E c \in Calls :
        \/ \E oc \in ConcOpCalls : Invoke(c, oc)
        \/ TimeoutElapse(c)
        \/ \E st \in ConcStatuses : FetchResolve(c, st)
        \/ \E f \in ConcFetchFaults : FetchReject(c, f)
        \/ \E w \in ConcWireBodies : BodyArrive(c, w)

ConcSpec == Init /\ [][ConcNext]_vars

(***************************************************************************)
(* The functions that touch no request: createConfig, the date and         *)
(* datetime formatters and the booking helpers, applied to inputs drawn    *)
(* from bounded sets.                                                      *)
(***************************************************************************)
\* the zone rules above are those of 2025; a date of another year is used
\* with UTC alone
FormatCalls ==
    {c \in [fn : {"formatDateTimeWithTimezone"}, wall : WallClocks, system : SystemZones,
            timezone : TimeZones, env : Environments] :
        \/ c.wall.year = 2025
        \/ c.system = <<"U","T","C">> /\ c.timezone \in {<<"U","T","C">>, <<"M","a","r","s","/","P","h","o","b","o","s">>}}

\* normalised tells that config is itself a result of createConfig
ConfigCalls ==
    {[fn |-> "createConfig", normalised |-> FALSE,
      config |-> [baseUrl |-> b, apiToken |-> <<"t","o","k">>,
                  stripePublishableKey |-> <<"p","k","_","1">>, timeoutMs |-> t]] :
        b \in {<<"h","t","t","p",":","/","/","h">>, <<"h","t","t","p",":","/","/","h","/">>, <<"h","t","t","p",":","/","/","h","/","/">>, <<>>},
        t \in {Undefined, JNum(0), JNum(5000)}}

\* the Dates formatDate is given, as the local date-time and the zone of
\* the system they were built on
DateCalls ==
    {c \in [fn : {"formatDate"}, wall : WallClocks, system : SystemZones] :
        c.wall.year = 2025 \/ c.system = <<"U","T","C">>}

\* bookings as the server returns them: every status, with other fields
\* that vary
HelperCalls ==
    {[fn |-> "BookingHelpers",
      booking |-> JObj(<<Member(<<"i","d">>, JNum(id)), Member(StatusKey, JStr(st)),
                         Member(<<"n","o","t","e","s">>, JStr(notes))>>)] :
        id \in {1, 2}, st \in BookingStatus, notes \in {<<>>, <<"p","a","i","d">>, <<"r","e","f","u","n","d","e","d">>}}

PureInit ==
    /\ config \in {CreateConfig(i) : i \in ConfigInputs}
    /\ baseApiUrl = BaseApiUrl(config)
    /\ NoCalls
    /\ fnCall \in FormatCalls \cup ConfigCalls \cup DateCalls \cup HelperCalls
    /\ fnOut = None

\* the caller builds the Date from its local date-time and the formatter
\* is applied to it
CallFormatDateTime ==
    /\ fnCall.fn = "formatDateTimeWithTimezone"
    /\ fnOut = None
    /\ fnOut' = formatDateTimeWithTimezone(NewDate(fnCall.wall, fnCall.system),
                                           fnCall.timezone, fnCall.env)
    /\ UNCHANGED <<config, baseApiUrl, pc, call, nreq, sent, timer, elapsed, status, body,
                   fault, reqResult, result, fnCall>>

CallCreateConfig ==
    /\ fnCall.fn = "createConfig"
    /\ fnOut = None
    /\ fnOut' = Return(CreateConfig(fnCall.config))
    /\ UNCHANGED <<config, baseApiUrl, pc, call, nreq, sent, timer, elapsed, status, body,
                   fault, reqResult, result, fnCall>>

\* the caller passes the configuration it got from createConfig to
\* createConfig once more
CallCreateConfigAgain ==
    /\ fnCall.fn = "createConfig"
    /\ ~fnCall.normalised
    /\ fnOut # None
    /\ fnCall' = [fnCall EXCEPT !.config = fnOut.v, !.normalised = TRUE]
    /\ fnOut' = None
    /\ UNCHANGED <<config, baseApiUrl, pc, call, nreq, sent, timer, elapsed, status, body,
                   fault, reqResult, result>>

CallFormatDate ==
    /\ fnCall.fn = "formatDate"
    /\ fnOut = None
    /\ fnOut' = Return(JStr(formatDate(NewDate(fnCall.wall, fnCall.system), fnCall.system)))
    /\ UNCHANGED <<config, baseApiUrl, pc, call, nreq, sent, timer, elapsed, status, body,
                   fault, reqResult, result, fnCall>>

\* the three predicates are applied to the booking
CallBookingHelpers ==
    /\ fnCall.fn = "BookingHelpers"
    /\ fnOut = None
    /\ fnOut' = Return([isPaid |-> isPaid(fnCall.booking),
                        isPending |-> isPending(fnCall.booking),
                        isCancelled |-> isCancelled(fnCall.booking)])
    /\ UNCHANGED <<config, baseApiUrl, pc, call, nreq, sent, timer, elapsed, status, body,
                   fault, reqResult, result, fnCall>>

PureNext ==
    \/ CallFormatDateTime
    \/ CallCreateConfig
    \/ CallCreateConfigAgain
    \/ CallFormatDate
    \/ CallBookingHelpers

PureSpec == PureInit /\ [][PureNext]_vars

(***************************************************************************)
(* Properties                                                              *)
(***************************************************************************)
UnknownErrorMessage == <<"U","n","k","n","o","w","n"," ","e","r","r","o","r">>

TimeoutMessage == <<"R","e","q","u","e","s","t"," ","t","i","m","e","o","u","t">>

\* a status of the 2xx range
Is2xx(n) == n \in 200..299

\* the call has ended and its last request got a non-2xx response whose
\* body was read
ErrorResponded(c) ==
    /\ pc[c] = "done"
    /\ status[c] # Undefined
    /\ ~Is2xx(status[c].n)
    /\ body[c] # None

\* the call has ended and its last request got a 2xx response whose body
\* was read
OkResponded(c) ==
    /\ pc[c] = "done"
    /\ status[c] # Undefined
    /\ Is2xx(status[c].n)
    /\ body[c] # None

\* C1: every non-2xx response, whatever its body, makes request reject with
\* the kind of the mapping table: 401 AuthenticationError, 404 NotFoundError,
\* and for every status other than 400, 401 and 404 (408 included) a generic
\* MatchEngineError whose statusCode is the status received.
C1_StatusMapping ==
    \A c \in Calls :
        ErrorResponded(c) =>
            /\ reqResult[c].k = "throw"
            /\ status[c].n = 401 => reqResult[c].e.name = "AuthenticationError"
            /\ status[c].n = 404 => reqResult[c].e.name = "NotFoundError"
            /\ status[c].n \notin {400, 401, 404} =>
                   /\ reqResult[c].e.name = "MatchEngineError"
                   /\ reqResult[c].e.statusCode = status[c]

\* C2: every 400 response yields exactly one of SlotNotAvailableError,
\* UserNotFoundError and ValidationError, chosen from the error's message
\* case-insensitively: "not available" first, then "user" with "not found",
\* then ValidationError.
C2_BadRequestKinds ==
    \A c \in Calls :
        (ErrorResponded(c) /\ status[c].n = 400) =>
            /\ reqResult[c].k = "throw"
            /\ reqResult[c].e.name =
                   IF Includes(ToLowerCase(reqResult[c].e.message),
                               <<"n","o","t"," ","a","v","a","i","l","a","b","l","e">>)
                   THEN "SlotNotAvailableError"
                   ELSE IF /\ Includes(ToLowerCase(reqResult[c].e.message), <<"u","s","e","r">>)
                           /\ Includes(ToLowerCase(reqResult[c].e.message),
                                       <<"n","o","t"," ","f","o","u","n","d">>)
                   THEN "UserNotFoundError"
                   ELSE "ValidationError"

\* the message the precedence rules (a) to (d) give for a body
RuleMessage(v) ==
    CASE GetProp(v, ErrorKey).t = "str" -> GetProp(v, ErrorKey).s
      [] GetProp(v, ErrorKey).t # "str" /\ GetProp(v, DetailKey).t = "str" ->
           GetProp(v, DetailKey).s
      [] /\ GetProp(v, ErrorKey).t # "str" /\ GetProp(v, DetailKey).t # "str"
         /\ GetProp(v, NonFieldErrorsKey).t = "arr"
         /\ GetProp(v, NonFieldErrorsKey).a # <<>> ->
           StringOf(GetProp(v, NonFieldErrorsKey).a[1])
      [] OTHER -> JSONStringify(v)

\* C3 as stated: the message derived from the body of a non-2xx response
\* is, first match wins, its string "error", its string "detail", the string
\* form of the first of its non-empty "non_field_errors", else the JSON
\* serialisation of the whole body.
C3_MessagePrecedenceAsStated ==
    \A c \in Calls :
        (ErrorResponded(c) /\ body[c].w = "json") =>
            /\ reqResult[c].k = "throw"
            /\ reqResult[c].e.message = RuleMessage(body[c].v)

\* C3 as amended: the precedence holds for every body that is a JSON object
\* or array; a body that is a JSON string, number or boolean gives "Unknown
\* error"; a JSON null body gives no derived message, request rejects with
\* the message of the TypeError that handleError raised.
C3_MessagePrecedence ==
    \A c \in Calls :
        (ErrorResponded(c) /\ body[c].w = "json") =>
            /\ reqResult[c].k = "throw"
            /\ reqResult[c].e.message =
                   CASE body[c].v.t \in {"obj", "arr"} -> RuleMessage(body[c].v)
                     [] body[c].v.t \in {"str", "num", "bool"} -> UnknownErrorMessage
                     [] OTHER -> NullReadMessage

\* C3's case: a body with a non-string "error" and a string "detail", and
\* one with "non_field_errors" only, have been answered
C3_Witness ==
    \E c \in Calls :
        /\ ErrorResponded(c)
        /\ body[c].w = "json"
        /\ GetProp(body[c].v, ErrorKey).t = "num"
        /\ reqResult[c].e.message = <<"D">>

\* C4: a non-2xx response with an empty or unparseable body gives the
\* message "Unknown error".
C4_UnknownErrorOnNoBody ==
    \A c \in Calls :
        (ErrorResponded(c) /\ body[c].w # "json") =>
            /\ reqResult[c].k = "throw"
            /\ reqResult[c].e.message = UnknownErrorMessage

\* C5: the error of every non-2xx response, of every kind, carries the
\* parsed body as responseData, the empty object when it did not parse.
C5_ResponseDataAttached ==
    \A c \in Calls :
        ErrorResponded(c) =>
            /\ reqResult[c].k = "throw"
            /\ reqResult[c].e.responseData =
                   IF body[c].w = "json" THEN body[c].v ELSE JObj(<<>>)

\* the synthetic timeout error: status 408 and no payload
TimeoutError == MatchEngineError(TimeoutMessage, JNum(408), Undefined)

\* C6: a request that had not completed when the timeout elapsed rejects
\* with the timeout error, and delivers no value.
C6_TimeoutRejects ==
    \A c \in Calls :
        (pc[c] = "done" /\ elapsed[c]) => reqResult[c] = Throw(TimeoutError)

\* C7: once the timeout has elapsed on a request, the call is cancelled: it
\* is no longer waiting for the server, at whatever stage the exchange was.
C7_SettledOnceElapsed ==
    \A c \in Calls : elapsed[c] => pc[c] \notin Pending

\* C8 as stated: whenever the server answers with a 2xx status, request
\* returns the parsed body and raises no error, whatever the body.
C8_SuccessReturnsAsStated ==
    \A c \in Calls :
        OkResponded(c) => reqResult[c].k = "return"

\* C8 as amended: after a 2xx status, a body that parses as JSON is returned
\* as it is, whatever its shape; a body that is empty, is no JSON or fails
\* in transit makes request reject with a generic MatchEngineError that has
\* the parser's or the stream's message and no statusCode or responseData.
C8_SuccessReturns ==
    \A c \in Calls :
        OkResponded(c) =>
            IF body[c].w = "json"
            THEN reqResult[c] = Return(body[c].v)
            ELSE reqResult[c] =
                     Throw(MatchEngineError(ResponseJson(body[c]).e.message, Undefined, Undefined))

\* C8's case: a 204 answered with a JSON body that no schema would accept
C8_Witness ==
    \E c \in Calls :
        /\ OkResponded(c)
        /\ status[c].n = 204
        /\ body[c] = WireJson(JStr(<<"o","o","p","s">>))
        /\ reqResult[c] = Return(JStr(<<"o","o","p","s">>))

\* C9: every public operation ends with a value or with a MatchEngineError
\* (or a subclass); no other exception reaches the caller.
C9_OnlyTypedErrors ==
    \A c \in Calls :
        (pc[c] = "done" /\ result[c].k = "throw") =>
            IsError(result[c].e) /\ InstanceOf(result[c].e, "MatchEngineError")

\* C10: lookupUser, lookupResource and lookupVenue return null when request
\* rejects with NotFoundError, rethrow every other error unchanged, and
\* return what request returned.
C10_LookupSentinel ==
    \A c \in Calls :
        (pc[c] = "done" /\ call[c].name \in LookupNames) =>
            IF reqResult[c].k = "throw" /\ reqResult[c].e.name = "NotFoundError"
            THEN result[c] = Return(JNull)
            ELSE result[c] = reqResult[c]

\* C10's case: a lookup whose request rejected with NotFoundError on a 404
\* and that returned null
C10_Witness ==
    \E c \in Calls :
        /\ pc[c] = "done"
        /\ call[c].name = "lookupVenue"
        /\ status[c] = JNum(404)
        /\ reqResult[c].k = "throw"
        /\ reqResult[c].e.name = "NotFoundError"
        /\ result[c] = Return(JNull)

\* C11: listBookings returns a flat list: a response that is a list is
\* returned as it is (same elements, same order), an envelope is reduced to
\* its results list, and an envelope with no results field gives the empty
\* list.
C11_ListBookingsFlat ==
    \A c \in Calls :
        (pc[c] = "done" /\ call[c].name = "listBookings" /\ reqResult[c].k = "return") =>
            /\ reqResult[c].v.t = "arr" => result[c] = Return(reqResult[c].v)
            /\ (reqResult[c].v.t = "obj" /\ GetProp(reqResult[c].v, ResultsKey).t = "arr") =>
                   result[c] = Return(GetProp(reqResult[c].v, ResultsKey))
            /\ (reqResult[c].v.t = "obj" /\ GetProp(reqResult[c].v, ResultsKey).t = "undefined") =>
                   result[c] = Return(JArr(<<>>))

\* C11's case: listBookings received an envelope of two elements and
\* returned the two, in their order
C11_Witness ==
    \E c \in Calls :
        /\ pc[c] = "done"
        /\ call[c].name = "listBookings"
        /\ body[c] = WireJson(JObj(<<Member(ResultsKey,
                                   JArr(<<Venue(2, <<"a","b">>), Venue(1, <<"a">>)>>))>>))
        /\ result[c] = Return(JArr(<<Venue(2, <<"a","b">>), Venue(1, <<"a">>)>>))

\* the operation of the call, "" before it is invoked
CallName(c) == IF call[c] = None THEN "" ELSE call[c].name

\* a paginated list of venues: an object whose results is a list of objects
IsVenueList(v) ==
    /\ v.t = "obj"
    /\ GetProp(v, ResultsKey).t = "arr"
    /\ \A i \in 1..Len(GetProp(v, ResultsKey).a) : GetProp(v, ResultsKey).a[i].t = "obj"

\* the index of the first element of a whose slug is exactly slug, 0 if none
FirstExact(a, slug) ==
    IF \E i \in 1..Len(a) : GetProp(a[i], SlugKey) = JStr(slug)
    THEN CHOOSE i \in 1..Len(a) :
             /\ GetProp(a[i], SlugKey) = JStr(slug)
             /\ \A j \in 1..(i - 1) : GetProp(a[j], SlugKey) # JStr(slug)
    ELSE 0

VenuesPath == <<"/","v","e","n","u","e","s","/">>

\* what C12 says of a call of getVenueBySlug, in every state
SlugRequestsInOrder(c) ==
    /\ Len(sent[c]) <= 2
    /\ Len(sent[c]) >= 1 =>
           /\ sent[c][1].method = "GET"
           /\ sent[c][1].url = baseApiUrl \o VenuesPath
           /\ sent[c][1].searchParams =
                  <<Member(<<"s","e","a","r","c","h">>, JStr(call[c].slug))>>
    /\ (pc[c] = "done" /\ nreq[c] = 1 /\ reqResult[c].k = "throw") =>
           result[c] = reqResult[c]
    /\ (pc[c] = "done" /\ nreq[c] = 1 /\ reqResult[c].k = "return"
          /\ IsVenueList(reqResult[c].v)) =>
           /\ FirstExact(GetProp(reqResult[c].v, ResultsKey).a, call[c].slug) = 0
           /\ result[c].k = "throw"
           /\ result[c].e.name = "NotFoundError"

\* what C12 says of the step in which the list request of the call completes
SlugSecondRequest(c) ==
    (Len(sent[c]) = 1 /\ pc[c] \in Pending /\ pc'[c] \notin {"readingBody", "readingErrorBody"}
      /\ (pc'[c] # pc[c] \/ sent'[c] # sent[c])) =>
        IF reqResult'[c].k = "return" /\ IsVenueList(reqResult'[c].v)
              /\ FirstExact(GetProp(reqResult'[c].v, ResultsKey).a, call[c].slug) # 0
        THEN /\ pc[c] = "readingBody"
             /\ Len(sent'[c]) = 2
             /\ sent'[c][2].method = "GET"
             /\ sent'[c][2].searchParams = <<>>
             /\ sent'[c][2].url =
                    baseApiUrl \o VenuesPath \o
                    StringOf(GetProp(GetProp(reqResult'[c].v, ResultsKey).a[
                                 FirstExact(GetProp(reqResult'[c].v, ResultsKey).a, call[c].slug)],
                             <<"i","d">>)) \o <<"/">>
        ELSE reqResult'[c].k = "throw" \/ IsVenueList(reqResult'[c].v) =>
                 /\ sent'[c] = sent[c]
                 /\ pc'[c] = "done"

\* C12: getVenueBySlug first sends the list request with search=slug; a
\* failure of it propagates and nothing more is sent; with no venue whose
\* slug is exactly the argument it rejects with NotFoundError and nothing
\* more is sent; otherwise it sends exactly one getVenue request, for the id
\* of the first exact match, once the list request has succeeded.
C12_SlugThenVenue ==
    [][\A c \in Calls :
          CallName(c)' = "getVenueBySlug" =>
              /\ SlugRequestsInOrder(c)'
              /\ CallName(c) = "getVenueBySlug" => SlugSecondRequest(c)]_vars

\* C12's case: the list held a venue whose slug only starts with the
\* argument before the exact match, and the second request is for the
\* exact match
C12_Witness ==
    \E c \in Calls :
        /\ call[c] = [name |-> "getVenueBySlug", slug |-> <<"a">>]
        /\ Len(sent[c]) = 2
        /\ reqResult[c] =
               Return(JObj(<<Member(ResultsKey,
                                    JArr(<<Venue(2, <<"a","b">>), Venue(1, <<"a">>)>>))>>))
        /\ sent[c][2].url = baseApiUrl \o <<"/","v","e","n","u","e","s","/","1","/">>

\* the request of call c completes in this step
RequestCompletes(c) ==
    /\ pc[c] \in Pending
    /\ pc'[c] = "done" \/ nreq'[c] # nreq[c]

\* C13: request does not retry.  Every invocation of request whose URL
\* parses issues exactly one HTTP request, however it ends; a request that
\* fails ends the call in the same step with nothing more sent; a request
\* that succeeds is followed by at most one new invocation, made by the
\* operation; so n invocations issue n requests.
C13_NoRetry ==
    [][\A c \in Calls :
          /\ Len(sent'[c]) <= nreq'[c]
          /\ HasScheme(baseApiUrl) => Len(sent'[c]) = nreq'[c]
          /\ RequestCompletes(c) =>
                 /\ reqResult'[c].k = "throw" =>
                        /\ pc'[c] = "done"
                        /\ nreq'[c] = nreq[c]
                        /\ sent'[c] = sent[c]
                 /\ nreq'[c] - nreq[c] \in {0, 1}
                 /\ Len(sent'[c]) - Len(sent[c]) = nreq'[c] - nreq[c]
                 /\ \A i \in 1..Len(sent[c]) : sent'[c][i] = sent[c][i]]_vars

\* C13's case: one call made two invocations and sent two requests, while
\* another timed out after one invocation and one request
C13_Witness ==
    \E c, d \in Calls :
        /\ pc[c] = "done" /\ nreq[c] = 2 /\ Len(sent[c]) = 2
        /\ pc[d] = "done" /\ nreq[d] = 1 /\ Len(sent[d]) = 1
        /\ reqResult[d] = Throw(TimeoutError)

\* everything the model keeps for one call
CallState(c) ==
    <<pc[c], call[c], nreq[c], sent[c], timer[c], elapsed[c], status[c], body[c],
      reqResult[c], result[c]>>

\* the call's own exchange: what it was asked, what it sent, and what came
\* back (the status and body, the firing of its own timer, or the fault)
OwnExchange(c) ==
    <<call[c], sent[c], status[c], body[c], timer[c],
      IF status[c] = Undefined THEN reqResult[c] ELSE None>>

\* C14: calls in flight together are independent under every
\* interleaving.  Every step (an invocation, a timer firing, a response, a
\* fault) changes the state of one call only, timer included, so a timeout
\* or failure of one call aborts no other; and the outcome of a call is a
\* function of its own exchange: two calls with the same arguments and the
\* same exchange end alike, whatever happened to the other calls.
C14_Independent ==
    [][/\ \E c \in Calls : \A d \in Calls \ {c} : CallState(d)' = CallState(d)
       /\ \A c, d \in Calls :
              (pc'[c] = "done" /\ pc'[d] = "done" /\ OwnExchange(c)' = OwnExchange(d)') =>
                  result'[c] = result'[d]]_vars

\* C14's case: one call has timed out while another, in its second
\* request, is still waiting with its own timer set
C14_Witness ==
    \E c, d \in Calls :
        /\ c # d
        /\ result[c] = Throw(TimeoutError)
        /\ pc[d] = "fetching"
        /\ Len(sent[d]) = 2
        /\ timer[d] = "armed"

\* C15: no operation, successful or failing, changes the configuration or
\* the base API URL, which stays the configured base address followed by
\* /api/v1; and nothing else passes from one call to the next: the first
\* request of a call is built from the configuration and the arguments, so
\* calls with the same arguments send the same first request whatever calls
\* were made before.
C15_ConfigFrozen ==
    [][/\ config' = config
       /\ baseApiUrl' = baseApiUrl
       /\ baseApiUrl' = config.baseUrl \o <<"/","a","p","i","/","v","1">>
       /\ \A c, d \in Calls :
              (Len(sent'[c]) >= 1 /\ Len(sent'[d]) >= 1 /\ call'[c] = call'[d]) =>
                  sent'[c][1] = sent'[d][1]
       /\ \A c \in Calls :
              Len(sent'[c]) >= 1 =>
                  /\ SubSeq(sent'[c][1].url, 1, Len(baseApiUrl)) = baseApiUrl
                  /\ sent'[c][1].headers[1].v = JStr(<<"T","o","k","e","n"," ">> \o config.apiToken)]_vars

\* C15's case: one call has failed and a later one has succeeded on the
\* same client
C15_Witness ==
    \E c, d \in Calls :
        /\ pc[c] = "done" /\ result[c].k = "throw"
        /\ pc[d] = "done" /\ result[d].k = "return"
        /\ config.apiToken = <<"t","o","k">>
        /\ baseApiUrl = <<"h","t","t","p",":","/","/","h","/","a","p","i","/","v","1">>

\* createConfig has been applied
ConfigMade == fnCall.fn = "createConfig" /\ fnOut # None

\* C16: createConfig returns a baseUrl that does not end in "/", for every
\* input; timeoutMs is the value supplied, 0 included, and 30000 when none
\* is; apiToken and stripePublishableKey are copied.
C16_ConfigNormalised ==
    ConfigMade =>
        /\ ~EndsWithSlash(fnOut.v.baseUrl)
        /\ fnOut.v.timeoutMs = IF fnCall.config.timeoutMs = Undefined
                               THEN JNum(30000) ELSE fnCall.config.timeoutMs
        /\ fnOut.v.apiToken = fnCall.config.apiToken
        /\ fnOut.v.stripePublishableKey = fnCall.config.stripePublishableKey

\* the formatter has been applied, for a zone the platform knows
Formatted ==
    /\ fnCall.fn = "formatDateTimeWithTimezone"
    /\ fnOut # None
    /\ IsValidZone(fnCall.timezone)

\* the Date the formatter was given
FormattedDate == NewDate(fnCall.wall, fnCall.system)

\* YYYY-MM-DDTHH:mm:ss of a wall clock
IsoLocal(w) ==
    PadStart(NumberToString(w.year), 4) \o <<"-">> \o PadStart(NumberToString(w.month), 2)
    \o <<"-">> \o PadStart(NumberToString(w.day), 2) \o <<"T">>
    \o PadStart(NumberToString(w.hour), 2) \o <<":">> \o PadStart(NumberToString(w.minute), 2)
    \o <<":">> \o PadStart(NumberToString(w.second), 2)

\* C17: the formatter reads the caller's wall-clock fields as local time of
\* the named zone: the output is those fields followed by the zone's offset
\* at that local time, whatever the system zone of the caller.
C17_WallClockKept ==
    Formatted =>
        fnOut = Return(JStr(IsoLocal(fnCall.wall)
                            \o IsoOffset(UtcOffset(fnCall.timezone,
                                                   NewDate(fnCall.wall, fnCall.timezone)))))

\* C18: the luxon path and the Intl path agree: the same Date and zone give
\* the same string whether luxon is installed or not.
C18_PathsAgree ==
    (fnCall.fn = "formatDateTimeWithTimezone" /\ fnOut # None) =>
        fnOut = formatDateTimeWithTimezone(FormattedDate, fnCall.timezone,
                                           [fnCall.env EXCEPT !.luxon = ~@])

\* s has the form YYYY-MM-DDTHH:mm:ss+HH:MM or YYYY-MM-DDTHH:mm:ss-HH:MM
IsFixedWidth(s) ==
    /\ Len(s) = 25
    /\ \A i \in {1, 2, 3, 4, 6, 7, 9, 10, 12, 13, 15, 16, 18, 19, 21, 22, 24, 25} : IsDigit(s[i])
    /\ s[5] = "-" /\ s[8] = "-" /\ s[11] = "T" /\ s[14] = ":" /\ s[17] = ":"
    /\ s[20] \in {"+", "-"} /\ s[23] = ":"

\* C19: without luxon the output always has the fixed-width form, the year
\* padded to 4 digits for every year, and its offset is the zone's offset,
\* whole hours or not, east or west.
C19_FallbackFixedWidth ==
    (Formatted /\ ~fnCall.env.luxon) =>
        /\ fnOut.k = "return"
        /\ IsFixedWidth(fnOut.v.s)
        /\ SubSeq(fnOut.v.s, Len(fnOut.v.s) - 5, Len(fnOut.v.s)) =
               IsoOffset(UtcOffset(fnCall.timezone, FormattedDate))

\* C20: for a zone whose offset at the instant is zero, UTC included, with
\* or without luxon, the output ends in +00:00 right after the seconds: no
\* "Z" and no fraction of a second.
C20_NoZSuffix ==
    (Formatted /\ UtcOffset(fnCall.timezone, FormattedDate) = 0) =>
        /\ fnOut.k = "return"
        /\ SubSeq(fnOut.v.s, Len(fnOut.v.s) - 5, Len(fnOut.v.s)) = <<"+","0","0",":","0","0">>
        /\ ~Includes(fnOut.v.s, <<"Z">>)
        /\ ~Includes(fnOut.v.s, <<".">>)
        /\ fnOut.v.s[Len(fnOut.v.s) - 8] = ":"
        /\ IsDigit(fnOut.v.s[Len(fnOut.v.s) - 7])
        /\ IsDigit(fnOut.v.s[Len(fnOut.v.s) - 6])

\* C21: formatDate renders the local calendar date of the instant, in the
\* zone of the system, as YYYY-MM-DD: a year of four digits, the month and
\* the day of two, for every date.
C21_FormatDateFixedWidth ==
    (fnCall.fn = "formatDate" /\ fnOut # None) =>
        fnOut = Return(JStr(SubSeq(IsoLocal(fnCall.wall), 1, 10)))

\* the message names a missing user: it contains "user" and "not found",
\* in any case
SaysUserNotFound(message) ==
    /\ Includes(ToLowerCase(message), <<"u","s","e","r">>)
    /\ Includes(ToLowerCase(message), <<"n","o","t"," ","f","o","u","n","d">>)

\* C22 as stated: UserNotFoundError is raised on both routes: for a 404
\* response about a missing user, and for a 400 response whose message
\* contains "user" and "not found".
C22_UserNotFoundBothRoutesAsStated ==
    \A c \in Calls :
        (/\ ErrorResponded(c)
         /\ status[c].n \in {400, 404}
         /\ reqResult[c].k = "throw"
         /\ SaysUserNotFound(reqResult[c].e.message)) =>
            reqResult[c].e.name = "UserNotFoundError"

\* C22 as amended: UserNotFoundError is raised on one route only, a 400
\* response whose message contains "user" and "not found" and does not
\* contain "not available"; it then carries the status code 404.  A 404
\* response is never UserNotFoundError, whatever its message.
C22_UserNotFoundRoute ==
    \A c \in Calls :
        ErrorResponded(c) =>
            /\ reqResult[c].k = "throw"
            /\ reqResult[c].e.name = "UserNotFoundError" <=>
                   /\ status[c].n = 400
                   /\ SaysUserNotFound(reqResult[c].e.message)
                   /\ ~Includes(ToLowerCase(reqResult[c].e.message), <<"n","o","t"," ","a","v","a","i","l","a","b","l","e">>)
            /\ reqResult[c].e.name = "UserNotFoundError" =>
                   reqResult[c].e.statusCode = JNum(404)

\* C22's case: a 400 response whose body names a missing user has been
\* answered with UserNotFoundError
C22_Witness ==
    \E c \in Calls :
        /\ ErrorResponded(c)
        /\ status[c].n = 400
        /\ body[c] = WireJson(JObj(<<Member(DetailKey, JStr(UserMessage))>>))
        /\ reqResult[c].k = "throw"
        /\ reqResult[c].e.name = "UserNotFoundError"

\* the fetch of the call's request was rejected, and not by the abort of
\* its timer: a transport fault
TransportFault(c) ==
    /\ pc[c] = "done"
    /\ fault[c] # None
    /\ fault[c] # AbortError

\* C23: a transport fault raised by fetch makes request reject with a
\* generic MatchEngineError that has the message of the underlying error and
\* neither statusCode nor responseData; a thrown value that is not an Error
\* gives the generic error with the message "Unknown error".
C23_TransportFaultGeneric ==
    \A c \in Calls :
        TransportFault(c) =>
            /\ reqResult[c].k = "throw"
            /\ reqResult[c].e.name = "MatchEngineError"
            /\ reqResult[c].e.message =
                   IF fault[c] = NonErrorValue THEN UnknownErrorMessage ELSE fault[c].message
            /\ reqResult[c].e.statusCode = Undefined
            /\ reqResult[c].e.responseData = Undefined

\* C23's case: fetch failed with a TypeError of the transport and request
\* rejected with the generic error that carries its message
C23_Witness ==
    \E c \in Calls :
        /\ TransportFault(c)
        /\ fault[c] = NativeError("TypeError", <<"f","e","t","c","h"," ","f","a","i","l","e","d">>)
        /\ status[c] = Undefined
        /\ reqResult[c] = Throw(MatchEngineError(<<"f","e","t","c","h"," ","f","a","i","l","e","d">>, Undefined, Undefined))

\* the three headers every request has, for a token
FixedHeaders(token) ==
    JObj(<<Member(<<"A","u","t","h","o","r","i","z","a","t","i","o","n">>, JStr(<<"T","o","k","e","n"," ">> \o token)),
           Member(<<"C","o","n","t","e","n","t","-","T","y","p","e">>, JStr(<<"a","p","p","l","i","c","a","t","i","o","n","/","j","s","o","n">>)),
           Member(<<"A","c","c","e","p","t">>, JStr(<<"a","p","p","l","i","c","a","t","i","o","n","/","j","s","o","n">>))>>)

\* the headers of its own that the i-th request of a call is said to have:
\* the user's external id on createBooking, createPaymentIntent and
\* cancelBooking, and on getBooking when a non-empty one is passed; the
\* headers of the descriptor when request is called with one
StatedHeaders(oc, i) ==
    JObj(CASE i = 1 /\ oc.name \in {"createBooking", "createPaymentIntent", "cancelBooking"} ->
                <<Member(UserExternalIdHeader, oc.userExternalId)>>
           [] i = 1 /\ oc.name = "getBooking" ->
                IF oc.userExternalId.t = "str" /\ oc.userExternalId.s # <<>>
                THEN <<Member(UserExternalIdHeader, oc.userExternalId)>>
                ELSE <<>>
           [] i = 1 /\ oc.name = "request" /\ oc.options.headers # Undefined ->
                oc.options.headers.o
           [] OTHER -> <<>>)

Keys(obj) == {obj.o[j].k : j \in 1..Len(obj.o)}

\* C24: every request of every operation carries Authorization built from
\* the configured token, Content-Type and Accept application/json; the
\* headers of the descriptor are laid over these and win where the key is
\* the same; X-User-External-ID is on createBooking, createPaymentIntent
\* and cancelBooking, and on getBooking exactly when a non-empty
\* userExternalId is passed; there is no other header.
C24_RequestHeaders ==
    \A c \in Calls :
        \A i \in 1..Len(sent[c]) :
            LET headers == JObj(sent[c][i].headers)
                own == StatedHeaders(call[c], i)
                fixed == FixedHeaders(config.apiToken)
            IN /\ Keys(headers) = Keys(fixed) \cup Keys(own)
               /\ Len(headers.o) = Cardinality(Keys(headers))
               /\ \A k \in Keys(headers) :
                      GetProp(headers, k) =
                          IF k \in Keys(own) THEN GetProp(own, k) ELSE GetProp(fixed, k)

\* C24's case: a request whose descriptor has an Accept header of its own
\* and one more header has been sent
C24_Witness ==
    \E c \in Calls :
        /\ call[c] # None
        /\ call[c].name = "request"
        /\ Len(sent[c]) = 1
        /\ GetProp(JObj(sent[c][1].headers), <<"A","c","c","e","p","t">>) = JStr(<<"t","e","x","t","/","p","l","a","i","n">>)
        /\ GetProp(JObj(sent[c][1].headers), <<"A","u","t","h","o","r","i","z","a","t","i","o","n">>) = JStr(<<"T","o","k","e","n"," ","t","o","k">>)

\* C25: the timer of a call is cleared on every way out of request (a
\* value, an error response, a transport fault, the timeout): a call that
\* has ended has no timer that is still set, so nothing can abort it later.
C25_TimerCleared ==
    \A c \in Calls :
        pc[c] = "done" => timer[c] \in {"none", "cleared", "fired"}

\* C25's case: a call whose fetch was rejected by a transport fault has
\* ended, and the timer it had set is cleared
C25_Witness ==
    \E c \in Calls :
        /\ pc[c] = "done"
        /\ nreq[c] = 1
        /\ fault[c] \notin {None, AbortError}
        /\ timer[c] = "cleared"

\* C26: the error of every non-2xx response carries a statusCode, and it
\* is the status the server sent, for every status, every body (JSON null
\* included) and every kind of error.
C26_StatusCodeIsStatus ==
    \A c \in Calls :
        ErrorResponded(c) =>
            /\ reqResult[c].k = "throw"
            /\ reqResult[c].e.statusCode = status[c]

\* the step ends a request of the call: request returns or rejects
RequestEnds(c) == pc[c] \in Pending /\ nreq[c] > 0 /\ (pc'[c] = "done" \/ nreq'[c] > nreq[c])

\* C27: every call of request has exactly one outcome, however the expiry
\* of its timer and the arrival of its response interleave: an outcome is
\* set only by the step that ends a request in flight (or by a URL that does
\* not parse, before anything is in flight), and once the call has ended
\* neither its value nor its error ever changes.  The timeout error
\* ("Request timeout", 408, no payload) is the outcome only of a step in
\* which the call's own timer fires while fetch is pending, never once a
\* status has been received.
C27_OneOutcome ==
    [][\A c \in Calls :
          /\ reqResult'[c] # reqResult[c] =>
                 \/ RequestEnds(c)
                 \/ pc[c] = "idle" /\ reqResult'[c].k = "throw"
          /\ RequestEnds(c) => reqResult'[c].k \in {"return", "throw"}
          /\ pc[c] = "done" =>
                 pc'[c] = "done" /\ reqResult'[c] = reqResult[c] /\ result'[c] = result[c]
          /\ (RequestEnds(c) /\ reqResult'[c] = Throw(TimeoutError)) =>
                 /\ pc[c] = "fetching"
                 /\ status[c] = Undefined
                 /\ timer[c] = "armed"
                 /\ timer'[c] = "fired"]_vars

\* C27's case: the timer fired while fetch was pending and the call ended
\* with the timeout error
C27_Witness ==
    \E c \in Calls :
        /\ pc[c] = "done"
        /\ timer[c] = "fired"
        /\ status[c] = Undefined
        /\ reqResult[c] = Throw(TimeoutError)

\* C28: request returns a value only after a response with a 2xx status; an
\* error response, a transport fault or the firing of the timeout never
\* ends in a value.  An operation returns a value only when its last
\* request did, but for the null of the three lookups on NotFoundError.
C28_ValueOnly2xx ==
    \A c \in Calls :
        pc[c] = "done" =>
            /\ reqResult[c].k = "return" =>
                   /\ status[c] # Undefined
                   /\ Is2xx(status[c].n)
                   /\ body[c] # None
                   /\ fault[c] = None
                   /\ timer[c] # "fired"
            /\ result[c].k = "return" =>
                   \/ reqResult[c].k = "return"
                   \/ /\ call[c].name \in LookupNames
                      /\ result[c] = Return(JNull)
                      /\ reqResult[c].k = "throw"
                      /\ reqResult[c].e.name = "NotFoundError"

\* C28's case: cancelBooking returned the body of a 200 response
C28_Witness ==
    \E c \in Calls :
        /\ pc[c] = "done"
        /\ call[c].name = "cancelBooking"
        /\ status[c] = JNum(200)
        /\ reqResult[c].k = "return"
        /\ result[c] = reqResult[c]

\* C29: createConfig is idempotent: applied to a configuration that
\* createConfig returned, it returns that configuration, for every base
\* address, those ending in several slashes included.
C29_ConfigIdempotent ==
    (ConfigMade /\ fnCall.normalised) => fnOut.v = fnCall.config

\* the predicates have been applied to a booking
HelpersApplied == fnCall.fn = "BookingHelpers" /\ fnOut # None

\* the status of the booking they were applied to
AppliedStatus == GetProp(fnCall.booking, StatusKey).s

\* C30: the predicates of BookingHelpers depend on the status of the
\* booking alone and exclude one another: isPaid holds exactly for "paid",
\* isPending exactly for "pending", isCancelled exactly for "cancelled" and
\* "refunded", none for "confirmed" and "no_show", so at most one holds.
C30_HelpersExclusive ==
    HelpersApplied =>
        /\ fnOut.v.isPaid <=> AppliedStatus = <<"p","a","i","d">>
        /\ fnOut.v.isPending <=> AppliedStatus = <<"p","e","n","d","i","n","g">>
        /\ fnOut.v.isCancelled <=> AppliedStatus \in {<<"c","a","n","c","e","l","l","e","d">>, <<"r","e","f","u","n","d","e","d">>}
        /\ AppliedStatus \in {<<"c","o","n","f","i","r","m","e","d">>, <<"n","o","_","s","h","o","w">>} =>
               ~(fnOut.v.isPaid \/ fnOut.v.isPending \/ fnOut.v.isCancelled)
        /\ Cardinality({p \in {"isPaid", "isPending", "isCancelled"} : fnOut.v[p]}) <= 1

\* C30's case: a refunded booking, whose notes say "paid", is cancelled and
\* neither paid nor pending
C30_Witness ==
    /\ HelpersApplied
    /\ AppliedStatus = <<"r","e","f","u","n","d","e","d">>
    /\ GetProp(fnCall.booking, <<"n","o","t","e","s">>) = JStr(<<"p","a","i","d">>)
    /\ fnOut.v.isCancelled
    /\ ~fnOut.v.isPaid
    /\ ~fnOut.v.isPending

=============================================================================
